---- MODULE Spec2Model ----
(***************************************************************************)
(* Discovery scanner, tree store and result reconciler of the Mocha test   *)
(* adapter.  Strings are sequences of one-character strings, so that the   *)
(* regular expressions of the scanner, the tag extraction and the suffix   *)
(* match of the reconciler are computed character by character.            *)
(***************************************************************************)
EXTENDS Integers, Sequences, FiniteSets, TLC

VARIABLES
  items,      \* controller.items and every TestItem below it, in insertion order
  tagMap,     \* TestDiscovery.tagMap: the ids of the tags created so far
  content,    \* the text handed to parseFileContent
  sc,         \* the locals of parseFileContent while it runs
  pc,         \* position of the scan: "start", "scan", "done"
  calls,      \* the parseTestFile calls made so far, each with its read result and state
  log,        \* what parseTestFile wrote to the output channel, as event records
  run,        \* the file run in progress: its kind, its output so far, its position
  results,    \* the testResults map of the last file run, in insertion order
  reported,   \* the run.passed / run.failed / run.skipped calls of the last file run
  diag,       \* DiagnosticsProvider.diagnosticCollection: the annotations per file
  cont,       \* the continuous run: its queue, its timers, its handlers and its passes
  stk,        \* parseStackTrace: its arguments, its position and the frames so far
  single,     \* a run of Test items on their own: their processes, the token, the outcome calls
  life,       \* one call of a run entry point: its position, its queue, its TestRun
  held        \* the items a run or a continuous session captured, the generation of the tree, the outcome calls

vars == <<items, tagMap, content, sc, pc, calls, log, run, results, reported, diag, cont, stk, single, life, held>>
scanVars == <<content, sc, pc>>
storeVars == <<calls, log>>
reconVars == <<run, results, reported, diag>>
contVars == <<cont>>
stackVars == <<stk>>
singleVars == <<single>>
lifeVars == <<life>>
heldVars == <<held>>

-----------------------------------------------------------------------------
(* Characters and strings *)

\* the template-literal quote character, which a TLA+ string cannot hold
Backquote == "bq"

Str_describe == <<"d", "e", "s", "c", "r", "i", "b", "e">>
Str_context == <<"c", "o", "n", "t", "e", "x", "t">>
Str_it == <<"i", "t">>
Str_skip == <<".", "s", "k", "i", "p">>
Str_only == <<".", "o", "n", "l", "y">>
Str_comment == <<"/", "/">>
Str_undefined == <<"u", "n", "d", "e", "f", "i", "n", "e", "d">>

LowerSeq == <<"a", "b", "c", "d", "e", "f", "g", "h", "i", "j", "k", "l", "m", "n", "o", "p", "q", "r", "s", "t", "u", "v", "w", "x", "y", "z">>
UpperSeq == <<"A", "B", "C", "D", "E", "F", "G", "H", "I", "J", "K", "L", "M", "N", "O", "P", "Q", "R", "S", "T", "U", "V", "W", "X", "Y", "Z">>
DigitSeq == <<"0", "1", "2", "3", "4", "5", "6", "7", "8", "9">>

Range(s) == {s[k] : k \in 1..Len(s)}

\* \s of the scanner's regular expressions and of String.prototype.trim
IsSpace(c) == c \in {" ", "\t", "\r"}

\* \w of the tag patterns
IsWordChar(c) == c \in Range(LowerSeq) \cup Range(UpperSeq) \cup Range(DigitSeq) \cup {"_"}

LowerChar(c) ==
  IF \E k \in 1..Len(UpperSeq) : UpperSeq[k] = c
  THEN LowerSeq[CHOOSE k \in 1..Len(UpperSeq) : UpperSeq[k] = c]
  ELSE c

\* String.prototype.toLowerCase
ToLowerCase(s) == [k \in 1..Len(s) |-> LowerChar(s[k])]

\* String.prototype.startsWith, from position p (1-based)
StartsWithAt(s, pre, p) ==
  /\ p + Len(pre) - 1 <= Len(s)
  /\ \A k \in 1..Len(pre) : s[p + k - 1] = pre[k]

\* String.prototype.endsWith
EndsWith(s, suf) ==
  /\ Len(suf) <= Len(s)
  /\ \A k \in 1..Len(suf) : s[Len(s) - Len(suf) + k] = suf[k]

\* first position >= p holding a character that is not white space (Len(s)+1 if none)
RECURSIVE SkipSpace(_, _)
SkipSpace(s, p) ==
  IF p <= Len(s) /\ IsSpace(s[p]) THEN SkipSpace(s, p + 1) ELSE p

\* first position >= p holding a character that is not a word character
RECURSIVE SkipWord(_, _)
SkipWord(s, p) ==
  IF p <= Len(s) /\ IsWordChar(s[p]) THEN SkipWord(s, p + 1) ELSE p

\* first position >= p holding the character q (Len(s)+1 if none)
RECURSIVE FindChar(_, _, _)
FindChar(s, q, p) ==
  IF p <= Len(s) /\ s[p] # q THEN FindChar(s, q, p + 1) ELSE p

\* String.prototype.split('\n')
RECURSIVE SplitLines(_)
SplitLines(s) ==
  LET e == FindChar(s, "\n", 1) IN
  IF e > Len(s) THEN <<s>>
  ELSE <<SubSeq(s, 1, e - 1)>> \o SplitLines(SubSeq(s, e + 1, Len(s)))

\* Array.prototype.join
RECURSIVE Join(_, _)
Join(parts, sep) ==
  IF parts = <<>> THEN <<>>
  ELSE IF Len(parts) = 1 THEN parts[1]
  ELSE parts[1] \o sep \o Join(Tail(parts), sep)

\* line.search(/\S/): 0-based column of the first character that is not white space
Indent(line) == SkipSpace(line, 1) - 1

\* line.trim() is empty, or starts with //
IsBlankOrComment(line) ==
  LET p == SkipSpace(line, 1) IN
  \/ p > Len(line)
  \/ StartsWithAt(line, Str_comment, p)

-----------------------------------------------------------------------------
(* The scanner's regular expressions *)

\* ^\s*(kw1|kw2)(\.(skip|only))?\s*\(\s*(?:"([^"]*)"|'([^']*)'|`([^`]*)`)
\* The result holds the modifier group and the captured name.
MatchCall(line, keywords) ==
  LET p0 == SkipSpace(line, 1)
      kws == {k \in keywords : StartsWithAt(line, k, p0)}
      kw == IF kws = {} THEN <<>> ELSE CHOOSE k \in kws : TRUE
      p1 == p0 + Len(kw)
      modifier == IF StartsWithAt(line, Str_skip, p1) THEN Str_skip
                  ELSE IF StartsWithAt(line, Str_only, p1) THEN Str_only
                  ELSE <<>>
      p2 == SkipSpace(line, p1 + Len(modifier))
      p3 == SkipSpace(line, p2 + 1)
      e == FindChar(line, line[p3], p3 + 1)
      ok == /\ kws # {}
            /\ p2 <= Len(line) /\ line[p2] = "("
            /\ p3 <= Len(line) /\ line[p3] \in {"\"", "'", Backquote}
            /\ e <= Len(line)
  IN IF ok THEN [ok |-> TRUE, modifier |-> modifier, name |-> SubSeq(line, p3 + 1, e - 1)]
     ELSE [ok |-> FALSE, modifier |-> <<>>, name |-> <<>>]

describeRegex(line) == MatchCall(line, {Str_describe, Str_context})

itRegex(line) == MatchCall(line, {Str_it})

\* ^\s*\}\s*\)
suiteEndRegex(line) ==
  LET p0 == SkipSpace(line, 1)
      p1 == SkipSpace(line, p0 + 1)
  IN /\ p0 <= Len(line) /\ line[p0] = "}"
     /\ p1 <= Len(line) /\ line[p1] = ")"

\* tests the modifier against '.only'
IsSkipped_Only(m) == m.modifier = Str_only

\* const isSkipped = modifier === '.skip'
IsSkipped(m) == m.modifier = Str_skip

-----------------------------------------------------------------------------
(* Tags *)

\* the five tags the constructor registers
CommonTags == {<<"u","n","i","t">>, <<"i","n","t","e","g","r","a","t","i","o","n">>,
               <<"e","2","e">>, <<"s","l","o","w">>, <<"s","k","i","p">>}

\* text.match(/\[(\w+)\]/g), each match lower-cased without its brackets
RECURSIVE BracketTags(_, _)
BracketTags(text, p) ==
  IF p > Len(text) THEN <<>>
  ELSE LET e == SkipWord(text, p + 1) IN
       IF text[p] = "[" /\ e > p + 1 /\ e <= Len(text) /\ text[e] = "]"
       THEN <<ToLowerCase(SubSeq(text, p + 1, e - 1))>> \o BracketTags(text, e + 1)
       ELSE BracketTags(text, p + 1)

\* text.match(/@(\w+)/g), each match lower-cased without its at-sign
RECURSIVE AtTags(_, _)
AtTags(text, p) ==
  IF p > Len(text) THEN <<>>
  ELSE LET e == SkipWord(text, p + 1) IN
       IF text[p] = "@" /\ e > p + 1
       THEN <<ToLowerCase(SubSeq(text, p + 1, e - 1))>> \o AtTags(text, e)
       ELSE AtTags(text, p + 1)

\* extractTags: the bracket tags in order, then the at-sign tags in order
extractTags(text) == BracketTags(text, 1) \o AtTags(text, 1)

\* getOrCreateTag applied to every extracted tag: the registry only grows
getOrCreateTags(map, tags) == map \cup Range(tags)

-----------------------------------------------------------------------------
(* TestItems.  A node is [id, type, tags, line]; id is the path of labels   *)
(* from the File's id down to the node, so the node's label is the last     *)
(* element of id, its parent's id is id without it, and the id string of    *)
(* the code is the path joined by "/".                                       *)

NoLine == -1

FileItem(f) == [id |-> <<f>>, type |-> "File", tags |-> <<>>, line |-> NoLine]

Label(n) == n.id[Len(n.id)]

ParentId(id) == SubSeq(id, 1, Len(id) - 1)

\* item.id as the code builds it, `${parent.id}/${name}` from the File's id
\* (the uri, one token here) down
IdString(id) == Join([k \in 1..Len(id) |-> IF k = 1 THEN <<id[1]>> ELSE id[k]], <<"/">>)

IsPrefix(a, b) == Len(a) <= Len(b) /\ SubSeq(b, 1, Len(a)) = a

IsBelow(id, anc) == Len(anc) < Len(id) /\ IsPrefix(anc, id)

HasItem(its, id) == \E k \in 1..Len(its) : its[k].id = id

GetItem(its, id) == its[CHOOSE k \in 1..Len(its) : its[k].id = id]

\* item.children, in the collection's order
Children(its, id) == SelectSeq(its, LAMBDA n : Len(n.id) = Len(id) + 1 /\ IsPrefix(id, n.id))

\* item.children.replace([]): the whole subtree below the item goes
ClearChildren(its, id) == SelectSeq(its, LAMBDA n : ~IsBelow(n.id, id))

\* adds the item and keeps a child of the same id beside it
AddChild_Append(its, n) == Append(its, n)

\* parent.children.add(item): an item with the id of an existing child takes
\* that child's place, and the old child goes with everything below it
AddChild(its, n) ==
  IF HasItem(its, n.id)
  THEN [k \in 1..Len(ClearChildren(its, n.id)) |->
          IF ClearChildren(its, n.id)[k].id = n.id THEN n ELSE ClearChildren(its, n.id)[k]]
  ELSE Append(its, n)

-----------------------------------------------------------------------------
(* parseFileContent *)

\* skippedBlockIndent = null
NoSkip == -1

\* the locals of parseFileContent after `content.split('\n')` and the stack's
\* initialisation; `threw` is set when a statement of the loop body throws
ScanLocals(f, text) ==
  [file |-> f, lines |-> SplitLines(text), i |-> 0, suiteStack |-> <<<<f>>>>,
   currentIndent |-> 0, skippedBlockIndent |-> NoSkip, threw |-> FALSE]

\* while (suiteStack.length > 1 && indent <= currentIndent) { pop; currentIndent -= 2 }
RECURSIVE PopSuites(_, _, _)
PopSuites(stack, cur, indent) ==
  IF Len(stack) > 1 /\ indent <= cur
  THEN PopSuites(SubSeq(stack, 1, Len(stack) - 1), cur - 2, indent)
  ELSE [stack |-> stack, cur |-> cur]

Top(stack) == stack[Len(stack)]

\* const suiteName = describeMatch[4] || describeMatch[5] || describeMatch[6]:
\* an empty capture is falsy, so the name of an empty-quoted declaration is undefined
NameIsUndefined(m) == m.name = <<>>

\* the tags a Suite gets: those of its own name
SuiteTags(its, parent, name) == extractTags(name)

\* the tags a Test gets: const allTags = [...parentTags, ...tags]
TestTags(its, parent, name) == GetItem(its, parent).tags \o extractTags(name)

\* the describe/context branch of the loop body, for a line describeRegex matches
DescribeBranch(st, m, line) ==
  LET s == st.sc
      indent == Indent(line)
      sb == IF s.skippedBlockIndent # NoSkip /\ indent <= s.skippedBlockIndent
            THEN NoSkip ELSE s.skippedBlockIndent
      popped == PopSuites(s.suiteStack, s.currentIndent, indent)
      parent == Top(popped.stack)
      suiteItem == [id |-> Append(parent, m.name), type |-> "Suite",
                    tags |-> SuiteTags(st.items, parent, m.name), line |-> s.i]
  IN IF IsSkipped(m)
     THEN [st EXCEPT !.sc.skippedBlockIndent = indent]
     ELSE IF sb # NoSkip /\ indent > sb
     THEN [st EXCEPT !.sc.skippedBlockIndent = sb]
     ELSE IF NameIsUndefined(m)
     THEN \* extractTags(undefined): text.match throws a TypeError
          [st EXCEPT !.sc.threw = TRUE]
     ELSE [items |-> AddChild(st.items, suiteItem),
           tagMap |-> getOrCreateTags(st.tagMap, extractTags(m.name)),
           sc |-> [s EXCEPT !.skippedBlockIndent = sb,
                            !.suiteStack = Append(popped.stack, suiteItem.id),
                            !.currentIndent = indent]]

\* the it branch of the loop body, for a line itRegex matches
ItBranch(st, m, line) ==
  LET s == st.sc
      indent == Indent(line)
      parent == Top(s.suiteStack)
      testItem == [id |-> Append(parent, m.name), type |-> "Test",
                   tags |-> TestTags(st.items, parent, m.name), line |-> s.i]
  IN IF s.skippedBlockIndent # NoSkip /\ indent > s.skippedBlockIndent
     THEN st
     ELSE IF IsSkipped(m)
     THEN st
     ELSE IF NameIsUndefined(m)
     THEN [st EXCEPT !.sc.threw = TRUE]
     ELSE [st EXCEPT !.items = AddChild(st.items, testItem),
                     !.tagMap = getOrCreateTags(st.tagMap, extractTags(m.name))]

\* pops at a closing line whatever the length of the stack
SuiteEndBranch_NoGuard(st, line) ==
  LET s == st.sc IN
  IF suiteEndRegex(line) /\ Indent(line) <= s.currentIndent
  THEN [st EXCEPT !.sc.suiteStack = SubSeq(s.suiteStack, 1, Len(s.suiteStack) - 1),
                  !.sc.currentIndent = IF s.currentIndent - 2 > 0 THEN s.currentIndent - 2 ELSE 0]
  ELSE st

\* the closing-brace branch of the loop body, for every other line
SuiteEndBranch(st, line) ==
  LET s == st.sc IN
  IF suiteEndRegex(line) /\ Len(s.suiteStack) > 1 /\ Indent(line) <= s.currentIndent
  THEN [st EXCEPT !.sc.suiteStack = SubSeq(s.suiteStack, 1, Len(s.suiteStack) - 1),
                  !.sc.currentIndent = IF s.currentIndent - 2 > 0 THEN s.currentIndent - 2 ELSE 0]
  ELSE st

\* which branch of the loop body a line takes
LineKind(line) ==
  IF IsBlankOrComment(line) THEN "skip"
  ELSE IF describeRegex(line).ok THEN "describe"
  ELSE IF itRegex(line).ok THEN "it"
  ELSE "other"

\* takes a blank or comment line for the end of the open suite
LoopBody_BlankCloses(st) ==
  LET line == st.sc.lines[st.sc.i + 1]
      kind == LineKind(line)
      s == st.sc
      after == IF kind = "skip"
               THEN (IF Len(s.suiteStack) > 1
                     THEN [st EXCEPT !.sc.suiteStack = SubSeq(s.suiteStack, 1, Len(s.suiteStack) - 1)]
                     ELSE st)
               ELSE IF kind = "describe" THEN DescribeBranch(st, describeRegex(line), line)
               ELSE IF kind = "it" THEN ItBranch(st, itRegex(line), line)
               ELSE SuiteEndBranch(st, line)
  IN [after EXCEPT !.sc.i = st.sc.i + 1]

\* one iteration of `for (let i = 0; i < lines.length; i++)`
LoopBody(st) ==
  LET line == st.sc.lines[st.sc.i + 1]
      kind == LineKind(line)
      after == IF kind = "skip" THEN st
               ELSE IF kind = "describe" THEN DescribeBranch(st, describeRegex(line), line)
               ELSE IF kind = "it" THEN ItBranch(st, itRegex(line), line)
               ELSE SuiteEndBranch(st, line)
  IN [after EXCEPT !.sc.i = st.sc.i + 1]

\* the loop has ended: by running out of lines, or by a throw
LoopEnded(s) == s.threw \/ s.i >= Len(s.lines)

RECURSIVE RunLoop(_)
RunLoop(st) == IF LoopEnded(st.sc) THEN st ELSE RunLoop(LoopBody(st))

\* scans without clearing the children first
parseFileContent_NoClear(its, tm, f, text) ==
  RunLoop([items |-> its, tagMap |-> tm, sc |-> ScanLocals(f, text)])

\* scans into a tree that holds the File node alone
parseFileContent_Alone(its, tm, f, text) ==
  RunLoop([items |-> <<FileItem(f)>>, tagMap |-> tm, sc |-> ScanLocals(f, text)])

\* parseFileContent(fileItem, content) as one synchronous call
parseFileContent(its, tm, f, text) ==
  RunLoop([items |-> ClearChildren(its, <<f>>), tagMap |-> tm, sc |-> ScanLocals(f, text)])

-----------------------------------------------------------------------------
(* Source texts *)

\* the file every scan of the scanner specification is about
F1 == "f1"

MaxLines == 3

Body_describeA ==
  <<"d", "e", "s", "c", "r", "i", "b", "e", "(", "\"", "[", "U", "]", " ", "A", "\"", ",", " ", "(", ")", " ", "=", ">", " ", "{">>
Body_describeB ==
  <<"d", "e", "s", "c", "r", "i", "b", "e", "(", "'", "B", "'", ",", " ", "(", ")", " ", "=", ">", " ", "{">>
Body_describeSkip ==
  <<"d", "e", "s", "c", "r", "i", "b", "e", ".", "s", "k", "i", "p", "(", "\"", "C", "\"", ",", " ", "(", ")", " ", "=", ">", " ", "{">>
Body_itB ==
  <<"i", "t", "(", "\"", "b", "\"", ",", " ", "f", "n", ")", ";">>
Body_itD ==
  <<"i", "t", "(", "\"", "@", "s", " ", "d", "\"", ",", " ", "f", "n", ")", ";">>
Body_itSkip ==
  <<"i", "t", ".", "s", "k", "i", "p", "(", "\"", "e", "\"", ",", " ", "f", "n", ")", ";">>
Body_close ==
  <<"}", ")", ";">>
Body_forEach ==
  <<"[", "1", "]", ".", "f", "o", "r", "E", "a", "c", "h", "(", "(", ")", " ", "=", ">", " ", "{">>
Line_comment ==
  <<"/", "/", " ", "i", "t", "(", "\"", "x", "\"", ")">>

Bodies == {Body_describeA, Body_describeB, Body_describeSkip, Body_itB, Body_itD, Body_itSkip, Body_close, Body_forEach}

\* the indentation columns of the generated lines
Indents == {0, 2}

Spaces(n) == [k \in 1..n |-> " "]

LineSet == {Spaces(n) \o b : n \in Indents, b \in Bodies} \cup {Line_comment, <<>>}

\* every text of at most max lines of LineSet, joined by line feeds
BoundedTexts(max) == {Join(ls, <<"\n">>) : ls \in UNION {[1..n -> LineSet] : n \in 1..max}}

Text_C3 ==
  <<"d", "e", "s", "c", "r", "i", "b", "e", "(", "\"", "A", "\"", ",", "(", ")", "=", ">", "{", " ", "i", "t", "(", "\"", "b", "\"", ",", "f", "n", ")", ";", " ", "d", "e", "s", "c", "r", "i", "b", "e", ".", "s", "k", "i", "p", "(", "\"", "C", "\"", ",", "(", ")", "=", ">", "{", " ", "i", "t", "(", "\"", "d", "\"", ",", "f", "n", ")", " ", "}", ")", " ", "}", ")">>

Text_C3Lines ==
  <<"d", "e", "s", "c", "r", "i", "b", "e", "(", "\"", "A", "\"", ",", "(", ")", "=", ">", "{", "\n", " ", " ", "i", "t", "(", "\"", "b", "\"", ",", "f", "n", ")", ";", "\n", " ", " ", "d", "e", "s", "c", "r", "i", "b", "e", ".", "s", "k", "i", "p", "(", "\"", "C", "\"", ",", "(", ")", "=", ">", "{", "\n", " ", " ", " ", " ", "i", "t", "(", "\"", "d", "\"", ",", "f", "n", ")", "\n", " ", " ", "}", ")", "\n", "}", ")">>

Text_SkipLeak ==
  <<"d", "e", "s", "c", "r", "i", "b", "e", "(", "\"", "A", "\"", ",", " ", "(", ")", " ", "=", ">", " ", "{", "\n", " ", " ", "d", "e", "s", "c", "r", "i", "b", "e", ".", "s", "k", "i", "p", "(", "\"", "C", "\"", ",", " ", "(", ")", " ", "=", ">", " ", "{", "\n", " ", " ", " ", " ", "i", "t", "(", "\"", "d", "\"", ",", " ", "f", "n", ")", ";", "\n", " ", " ", "}", ")", ";", "\n", " ", " ", "[", "1", "]", ".", "f", "o", "r", "E", "a", "c", "h", "(", "(", ")", " ", "=", ">", " ", "{", "\n", " ", " ", " ", " ", "i", "t", "(", "\"", "e", "\"", ",", " ", "f", "n", ")", ";", "\n", " ", " ", "}", ")", ";", "\n", "}", ")", ";">>

Text_NestedSkip ==
  <<"d", "e", "s", "c", "r", "i", "b", "e", ".", "s", "k", "i", "p", "(", "\"", "C", "\"", ",", " ", "(", ")", " ", "=", ">", " ", "{", "\n", " ", " ", "d", "e", "s", "c", "r", "i", "b", "e", ".", "s", "k", "i", "p", "(", "\"", "D", "\"", ",", " ", "(", ")", " ", "=", ">", " ", "{", "\n", " ", " ", " ", " ", "i", "t", "(", "\"", "x", "\"", ",", " ", "f", "n", ")", ";", "\n", " ", " ", "}", ")", ";", "\n", " ", " ", "i", "t", "(", "\"", "y", "\"", ",", " ", "f", "n", ")", ";", "\n", "}", ")", ";">>

Text_TagNest ==
  <<"d", "e", "s", "c", "r", "i", "b", "e", "(", "\"", "[", "u", "n", "i", "t", "]", " ", "A", "\"", ",", " ", "(", ")", " ", "=", ">", " ", "{", "\n", " ", " ", "d", "e", "s", "c", "r", "i", "b", "e", "(", "\"", "B", "\"", ",", " ", "(", ")", " ", "=", ">", " ", "{", "\n", " ", " ", " ", " ", "i", "t", "(", "\"", "c", "\"", ",", " ", "f", "n", ")", ";", "\n", " ", " ", "}", ")", ";", "\n", "}", ")", ";">>

Text_Step4 ==
  <<"d", "e", "s", "c", "r", "i", "b", "e", "(", "\"", "A", "\"", ",", " ", "(", ")", " ", "=", ">", " ", "{", "\n", " ", " ", " ", " ", "d", "e", "s", "c", "r", "i", "b", "e", "(", "\"", "B", "\"", ",", " ", "(", ")", " ", "=", ">", " ", "{", "\n", " ", " ", " ", " ", " ", " ", " ", " ", "d", "e", "s", "c", "r", "i", "b", "e", "(", "\"", "C", "\"", ",", " ", "(", ")", " ", "=", ">", " ", "{", "\n", " ", " ", " ", " ", " ", " ", " ", " ", "}", ")", ";", "\n", " ", " ", " ", " ", "}", ")", ";", "\n", " ", " ", " ", " ", "d", "e", "s", "c", "r", "i", "b", "e", "(", "\"", "E", "\"", ",", " ", "(", ")", " ", "=", ">", " ", "{", "\n", " ", " ", " ", " ", " ", " ", " ", " ", "i", "t", "(", "\"", "x", "\"", ",", " ", "f", "n", ")", ";", "\n", " ", " ", " ", " ", "}", ")", ";", "\n", "}", ")", ";">>

Text_Misc ==
  <<"c", "o", "n", "t", "e", "x", "t", ".", "o", "n", "l", "y", "(", Backquote, "E", Backquote, ",", " ", "(", ")", " ", "=", ">", " ", "{", "\n", "\t", "i", "t", ".", "o", "n", "l", "y", "(", "'", "f", " ", "@", "S", "l", "o", "w", " ", "[", "e", "2", "e", "]", "'", ",", " ", "f", "n", ")", ";", "\n", " ", " ", "i", "t", "(", "\"", "\"", ",", " ", "f", "n", ")", ";", "\n", " ", " ", "i", "t", "(", "\"", "g", "\"", ",", " ", "f", "n", ")", ";", "\n", "}", ")", ";">>

ExampleTexts == {Text_C3, Text_C3Lines, Text_SkipLeak, Text_NestedSkip, Text_TagNest, Text_Step4, Text_Misc}

Texts(max) == BoundedTexts(max) \cup ExampleTexts

-----------------------------------------------------------------------------
(* The scanner, one loop iteration at a time *)

\* the variables of the tree store and of the runner, where they are not in use
StoreIdle == calls = <<>> /\ log = <<>>

\* no run of the test process yet: no payload, and an empty diagnosticCollection
RunIdle ==
  [kind |-> "none", n |-> 0, open |-> FALSE, parsed |-> FALSE, exit |-> "none",
   tests |-> <<>>, pending |-> <<>>, before |-> <<>>]

\* no continuous run: runContinuousTests was not called
ContNone == [include |-> <<>>, cancelled |-> FALSE, queuedTestFiles |-> <<>>,
             debounceTimer |-> 0, armed |-> {}, lookups |-> 0, saves |-> 0, expired |-> 0,
             passes |-> <<>>]
ContIdle == cont = ContNone

\* parseStackTrace was not called
StackNone == [stack |-> <<>>, hasUri |-> FALSE, lines |-> <<>>, i |-> 0, frames |-> <<>>, pc |-> "idle"]
StackIdle == stk = StackNone

\* the items a run or a continuous session captured, the generation of the tree, the outcome calls
HeldNone == [gen |-> 0, queue |-> <<>>, passes |-> 0, reports |-> <<>>]
HeldIdle == held = HeldNone

\* one call of a run entry point: its position, its queue, its TestRun
LifeNone == [kind |-> "none", pc |-> "idle", queue |-> <<>>, cancelled |-> FALSE, created |-> FALSE,
             session |-> FALSE, ends |-> 0]
LifeIdle == life = LifeNone

\* a run of Test items on their own: their processes, the token, the outcome calls
SingleNone == [tests |-> <<>>, cancelled |-> FALSE, outcomes |-> <<>>, ended |-> FALSE]
SingleIdle == single = SingleNone
ReconIdle == run = RunIdle /\ results = <<>> /\ reported = <<>> /\ diag = <<>>

ScanIdle == content = <<>> /\ sc = ScanLocals(F1, <<>>) /\ pc = "idle"

ScanState == [items |-> items, tagMap |-> tagMap, sc |-> sc]

ScanInit ==
  /\ items = <<FileItem(F1)>>
  /\ tagMap = CommonTags
  /\ content \in Texts(MaxLines)
  /\ sc = ScanLocals(F1, <<>>)
  /\ pc = "start"
  /\ StoreIdle
  /\ ReconIdle
  /\ ContIdle
  /\ StackIdle
  /\ SingleIdle
  /\ LifeIdle
  /\ HeldIdle

\* parseFileContent is entered: the children are cleared, the text is split
BeginParse ==
  /\ pc = "start"
  /\ items' = ClearChildren(items, <<F1>>)
  /\ sc' = ScanLocals(F1, content)
  /\ pc' = "scan"
  /\ UNCHANGED <<tagMap, content, storeVars, reconVars, contVars, stackVars, singleVars, lifeVars, heldVars>>

Step(kind) ==
  /\ pc = "scan"
  /\ ~LoopEnded(sc)
  /\ LineKind(sc.lines[sc.i + 1]) = kind
  /\ LET after == LoopBody(ScanState) IN
       /\ items' = after.items
       /\ tagMap' = after.tagMap
       /\ sc' = after.sc
  /\ UNCHANGED <<content, pc, storeVars, reconVars, contVars, stackVars, singleVars, lifeVars, heldVars>>

\* a blank line or a comment line
SkipLine == Step("skip")

\* a line describeRegex matches
DescribeLine == Step("describe")

\* a line itRegex matches
ItLine == Step("it")

\* any other line: the closing-brace check
OtherLine == Step("other")

\* the loop is over and parseFileContent returns (or its throw propagates)
EndParse ==
  /\ pc = "scan"
  /\ LoopEnded(sc)
  /\ pc' = "done"
  /\ UNCHANGED <<items, tagMap, content, sc, storeVars, reconVars, contVars, stackVars, singleVars, lifeVars, heldVars>>

ScanNext == BeginParse \/ SkipLine \/ DescribeLine \/ ItLine \/ OtherLine \/ EndParse

SpecScan == ScanInit /\ [][ScanNext]_vars

-----------------------------------------------------------------------------
(* Properties of the scanner *)

\* the scan is over
ScanDone == pc = "done"

\* the nodes of a type, as the labels in tree order
LabelsOfType(its, t) ==
  LET sel == SelectSeq(its, LAMBDA n : n.type = t) IN [k \in 1..Len(sel) |-> Label(sel[k])]

\* the number of nodes of the tree that were created from line k (1-based)
NodesOfLine(its, k) == Cardinality({j \in 1..Len(its) : its[j].line = k - 1})

\* the lexical block structure of a text: a line whose last character is an
\* opening brace opens a block, a closing line `})` closes the innermost one
OpensBlock(line) ==
  \E p \in 1..Len(line) : line[p] = "{" /\ SkipSpace(line, p + 1) > Len(line)

\* the lines whose blocks are still open before line k, outermost first
RECURSIVE OpenBlocks(_, _)
OpenBlocks(lines, k) ==
  IF k <= 1 THEN <<>>
  ELSE LET before == OpenBlocks(lines, k - 1)
           l == lines[k - 1]
       IN IF IsBlankOrComment(l) THEN before
          ELSE IF suiteEndRegex(l)
          THEN (IF before = <<>> THEN before ELSE SubSeq(before, 1, Len(before) - 1))
          ELSE IF OpensBlock(l) THEN Append(before, k - 1)
          ELSE before

IsSkippedSuiteLine(line) ==
  LineKind(line) = "describe" /\ IsSkipped(describeRegex(line))

IsSkippedTestLine(line) ==
  LineKind(line) = "it" /\ IsSkipped(itRegex(line))

\* line k lies inside the block of a describe.skip / context.skip line
NestedInSkippedSuite(lines, k) ==
  \E j \in Range(OpenBlocks(lines, k)) : IsSkippedSuiteLine(lines[j])

\* the text is indented by the block: two columns for every open block, the
\* closing line of a block in the column of the line that opened it
WellIndented(lines) ==
  \A k \in 1..Len(lines) :
    IsBlankOrComment(lines[k]) \/
      Indent(lines[k]) =
        2 * (Len(OpenBlocks(lines, k)) - (IF suiteEndRegex(lines[k]) THEN 1 ELSE 0))

\* no two test declarations of the text have the same name
DistinctTestNames(lines) ==
  \A j, k \in 1..Len(lines) :
    (j # k /\ LineKind(lines[j]) = "it" /\ LineKind(lines[k]) = "it") =>
      itRegex(lines[j]).name # itRegex(lines[k]).name

\* C1: when the scan of a text is over, every test-declaration line that is not
\* skip-modified and not nested in a skipped suite has exactly one Test node
\* (checked on the texts that are indented by the block and whose test
\* declarations have distinct names, where it already fails).
C1_OneTestNodePerDeclaration ==
  (ScanDone /\ WellIndented(sc.lines) /\ DistinctTestNames(sc.lines)) =>
    \A k \in 1..Len(sc.lines) :
      (/\ LineKind(sc.lines[k]) = "it"
       /\ ~IsSkippedTestLine(sc.lines[k])
       /\ ~NestedInSkippedSuite(sc.lines, k))
      => Cardinality({j \in 1..Len(items) :
                        items[j].line = k - 1 /\ items[j].type = "Test"}) = 1

\* C2: when the scan of a text is over, no node exists for a skip-modified
\* declaration nor for a suite or test declaration nested under a skipped suite
\* (checked on the texts that are indented by the block, where it already fails).
C2_NoNodeForSkipped ==
  (ScanDone /\ WellIndented(sc.lines)) =>
    \A k \in 1..Len(sc.lines) :
      (/\ LineKind(sc.lines[k]) \in {"describe", "it"}
       /\ \/ IsSkippedSuiteLine(sc.lines[k])
          \/ IsSkippedTestLine(sc.lines[k])
          \/ NestedInSkippedSuite(sc.lines, k))
      => NodesOfLine(items, k) = 0

Label_A == <<"A">>
Label_b == <<"b">>
Label_C == <<"C">>
Label_d == <<"d">>

AllLabels(its) == {Label(its[k]) : k \in 2..Len(its)}

\* C3 as stated: the scan of the example text has exactly one Suite A and
\* exactly one Test b, and no node labelled C or d.
C3_ExampleAsStated ==
  (ScanDone /\ content = Text_C3) =>
    /\ LabelsOfType(items, "Suite") = <<Label_A>>
    /\ LabelsOfType(items, "Test") = <<Label_b>>
    /\ AllLabels(items) \cap {Label_C, Label_d} = {}

\* C3 as amended: the example text is one line, so its scan has exactly one
\* Suite A and no Test node (b shares the line of A), and no C or d; the same
\* declarations written one per line and indented give exactly one Suite A with
\* exactly one Test b below it, and no C or d.
C3_ExampleAmended ==
  ScanDone =>
    /\ content = Text_C3 =>
         /\ LabelsOfType(items, "Suite") = <<Label_A>>
         /\ LabelsOfType(items, "Test") = <<>>
         /\ AllLabels(items) \cap {Label_b, Label_C, Label_d} = {}
    /\ content = Text_C3Lines =>
         /\ LabelsOfType(items, "Suite") = <<Label_A>>
         /\ LabelsOfType(items, "Test") = <<Label_b>>
         /\ HasItem(items, <<F1, Label_A, Label_b>>)
         /\ AllLabels(items) \cap {Label_C, Label_d} = {}

\* the example text has been scanned to its end
C3_Witness == ScanDone /\ content = Text_C3 /\ Len(items) = 2

TagSet(n) == Range(n.tags)

\* C4: every node below a File has a tag set that includes its parent's.
C4_TagsIncludeParentTags ==
  \A k \in 1..Len(items) :
    items[k].type # "File" =>
      /\ HasItem(items, ParentId(items[k].id))
      /\ TagSet(GetItem(items, ParentId(items[k].id))) \subseteq TagSet(items[k])

-----------------------------------------------------------------------------
(* parseTestFile and the tree store *)

F2 == "f2"

Files == {F1, F2}

\* the parseTestFile calls of one behaviour
MaxCalls == 2

\* what workspace.fs.readFile can deliver
StoreTexts == {Text_C3Lines, Text_TagNest, Text_Misc}

\* the states of the promise of workspace.fs.readFile
ReadPending == [st |-> "pending", text |-> <<>>]

ReadRejected == [st |-> "rejected", text |-> <<>>]

ReadResults == {ReadRejected} \cup {[st |-> "ok", text |-> t] : t \in StoreTexts}

\* getOrCreateFile: the File item of the uri, created and added if it is new
getOrCreateFile(its, f) ==
  IF HasItem(its, <<f>>) THEN its ELSE Append(its, FileItem(f))

\* scans into the children the File has, so that the nodes of two scans mix
TryBlock_Merge(its, tm, f, text) ==
  LET st == RunLoop([items |-> its, tagMap |-> tm, sc |-> ScanLocals(f, text)]) IN
  [items |-> st.items, tagMap |-> st.tagMap,
   logged |-> IF st.sc.threw THEN "error" ELSE "parsed"]

\* the try block after the read: parseFileContent, then the "Parsed" line
TryBlock(its, tm, f, text) ==
  LET st == parseFileContent(its, tm, f, text) IN
  [items |-> st.items, tagMap |-> st.tagMap,
   logged |-> IF st.sc.threw THEN "error" ELSE "parsed"]

\* the catch block when readFile rejected: the error is written to the log
CatchBlock(its, tm, f) ==
  [items |-> its, tagMap |-> tm, logged |-> "error"]

\* how the promise of parseTestFile settles: every statement after
\* getOrCreateFile is inside try/catch and the catch block does not rethrow
Settles(logged) == "resolved"

StoreInit ==
  /\ items = <<>>
  /\ tagMap = CommonTags
  /\ calls = <<>>
  /\ log = <<>>
  /\ ScanIdle
  /\ ReconIdle
  /\ ContIdle
  /\ StackIdle
  /\ SingleIdle
  /\ LifeIdle
  /\ HeldIdle

\* parseTestFile(uri) up to its await: the log line and getOrCreateFile
ParseTestFile(f) ==
  /\ Len(calls) < MaxCalls
  /\ items' = getOrCreateFile(items, f)
  /\ calls' = Append(calls, [file |-> f, read |-> ReadPending, state |-> "awaiting",
                               detached |-> FALSE])
  /\ log' = Append(log, [kind |-> "parsing", call |-> Len(calls) + 1])
  /\ UNCHANGED <<tagMap, scanVars, reconVars, contVars, stackVars, singleVars, lifeVars, heldVars>>

\* workspace.fs.readFile settles: with the file's bytes, or rejected
ReadFileSettles(k, r) ==
  /\ calls[k].state = "awaiting"
  /\ calls[k].read = ReadPending
  /\ calls' = [calls EXCEPT ![k].read = r]
  /\ UNCHANGED <<items, tagMap, log, scanVars, reconVars, contVars, stackVars, singleVars, lifeVars, heldVars>>

\* the tree the fileItem of a call stands in: controller.items, or, once the
\* File was deleted from it, the item alone
HeldFileTree(its, f, detached) == IF detached THEN <<FileItem(f)>> ELSE its

\* puts the nodes of a scan into controller.items even when the File was deleted
TreeAfter_Reinsert(its, scanned, detached) ==
  IF detached THEN its \o scanned ELSE scanned

\* controller.items after a call has scanned into its fileItem: nothing of a
\* deleted File's item goes back into it
TreeAfter(its, scanned, detached) == IF detached THEN its ELSE scanned

\* parseTestFile resumes after the await and runs to its end
ParseTestFileResumes(k) ==
  /\ calls[k].state = "awaiting"
  /\ calls[k].read # ReadPending
  /\ LET f == calls[k].file
         own == HeldFileTree(items, f, calls[k].detached)
         r == IF calls[k].read = ReadRejected
              THEN CatchBlock(own, tagMap, f)
              ELSE TryBlock(own, tagMap, f, calls[k].read.text)
     IN /\ items' = TreeAfter(items, r.items, calls[k].detached)
        /\ tagMap' = r.tagMap
        /\ log' = Append(log, [kind |-> r.logged, call |-> k])
        /\ calls' = [calls EXCEPT ![k].state = Settles(r.logged)]
  /\ UNCHANGED <<scanVars, reconVars, contVars, stackVars, singleVars, lifeVars, heldVars>>

StoreNext ==
  \/ \E f \in Files : ParseTestFile(f)
  \/ \E k \in 1..Len(calls) : \E r \in ReadResults : ReadFileSettles(k, r)
  \/ \E k \in 1..Len(calls) : ParseTestFileResumes(k)

SpecStore == StoreInit /\ [][StoreNext]_vars

\* C10: when the read of a scan has failed and the call has run to its end,
\* the failure is in the log, the call resolved, and the File has no children,
\* on the first scan of the file and on a later one.
C10_ReadFailureLeavesFileChildless ==
  \A k \in 1..Len(calls) :
    (calls[k].read = ReadRejected /\ calls[k].state # "awaiting") =>
      /\ calls[k].state = "resolved"
      /\ \E j \in 1..Len(log) : log[j] = [kind |-> "error", call |-> k]
      /\ log[Len(log)] = [kind |-> "error", call |-> k] =>
           Children(items, <<calls[k].file>>) = <<>>

-----------------------------------------------------------------------------
(* The result payload of the test process and the testResults map *)

Title_Ab == <<"A", " ", "b">>
Title_b == <<"b">>
Title_XAb == <<"X", " ", "A", " ", "b">>
Title_ZAb == <<"Z", "A", " ", "b">>

Titles == {Title_Ab, Title_b, Title_XAb, Title_ZAb}

\* an element of the payload's tests array: fullTitle, the pending and skipped
\* properties (TRUE when the property is true), and err ("none" for null or
\* undefined, "empty" for {}, "error" for an object with properties)
TestEntry(t, p, s, e) == [fullTitle |-> t, pending |-> p, skipped |-> s, err |-> e]

TestEntries ==
  {TestEntry(t, FALSE, FALSE, "empty") : t \in {Title_Ab, Title_b, Title_XAb}} \cup
  {TestEntry(t, FALSE, FALSE, "error") : t \in Titles} \cup
  {TestEntry(Title_b, FALSE, FALSE, "none"),
   TestEntry(Title_b, TRUE, FALSE, "empty"),
   TestEntry(Title_Ab, TRUE, FALSE, "error"),
   TestEntry(Title_Ab, FALSE, TRUE, "none")}

\* Map.prototype.set: a new key goes to the end, an existing key keeps its place
MapSet(map, key, val) ==
  IF \E k \in 1..Len(map) : map[k].key = key
  THEN [k \in 1..Len(map) |-> IF map[k].key = key THEN [key |-> key, val |-> val] ELSE map[k]]
  ELSE Append(map, [key |-> key, val |-> val])

\* takes an empty err object for an error
ErrIsEmpty_NoneOnly(e) == e.err = "none"

\* !test.err || (typeof test.err === 'object' && Object.keys(test.err).length === 0)
ErrIsEmpty(e) == e.err \in {"none", "empty"}

\* const isPending = test.pending === true || test.skipped === true
IsPendingEntry(e) == e.pending \/ e.skipped

\* the value runFileTests stores for an element of results.tests
PlainRecord(e) ==
  [passed |-> ~IsPendingEntry(e) /\ ErrIsEmpty(e), pending |-> IsPendingEntry(e),
   hasMessage |-> e.err = "error"]

\* the value runFileTests stores for an element of results.pending
PendingRecord == [passed |-> FALSE, pending |-> TRUE, hasMessage |-> FALSE]

\* the value runFileTestsWithCoverage stores for an element of results.tests:
\* it has no pending property, which reads as false
CoverageRecord(e) ==
  [passed |-> ErrIsEmpty(e), pending |-> FALSE, hasMessage |-> e.err = "error"]

RECURSIVE SetTests(_, _, _)
SetTests(map, tests, plain) ==
  IF tests = <<>> THEN map
  ELSE SetTests(MapSet(map, tests[1].fullTitle,
                       IF plain THEN PlainRecord(tests[1]) ELSE CoverageRecord(tests[1])),
                Tail(tests), plain)

RECURSIVE SetPending(_, _)
SetPending(map, pending) ==
  IF pending = <<>> THEN map
  ELSE SetPending(MapSet(map, pending[1], PendingRecord), Tail(pending))

\* testResults as runFileTests fills it: results.tests, then results.pending
PlainResults(tests, pending) == SetPending(SetTests(<<>>, tests, TRUE), pending)

\* testResults as runFileTestsWithCoverage fills it: results.tests alone
CoverageResults(tests, pending) == SetTests(<<>>, tests, FALSE)

-----------------------------------------------------------------------------
(* updateTestResults *)

\* buildFullTitlePath: the labels from the root down, the File's left out
RECURSIVE TitleParts(_, _)
TitleParts(its, id) ==
  IF id = <<>> THEN <<>>
  ELSE TitleParts(its, ParentId(id)) \o
       (IF GetItem(its, id).type # "File" THEN <<Label(GetItem(its, id))>> ELSE <<>>)

\* joins the labels with two spaces
buildFullTitlePath_TwoSpaces(its, id) == Join(TitleParts(its, id), <<" ", " ">>)

\* parts.join(' ')
buildFullTitlePath(its, id) == Join(TitleParts(its, id), <<" ">>)

\* prefers an entry whose key equals the path to an earlier one that ends with it
FirstMatch_ExactFirst(map, path) ==
  LET exact == {k \in 1..Len(map) : map[k].key = path}
      hits == {k \in 1..Len(map) : map[k].key = path \/ EndsWith(map[k].key, path)}
      from == IF exact # {} THEN exact ELSE hits
  IN IF from = {} THEN 0 ELSE CHOOSE k \in from : \A j \in from : k <= j

\* takes the last matching entry of the map
FirstMatch_Last(map, path) ==
  LET hits == {k \in 1..Len(map) : map[k].key = path \/ EndsWith(map[k].key, path)} IN
  IF hits = {} THEN 0 ELSE CHOOSE k \in hits : \A j \in hits : j <= k

\* matches a record only when its fullTitle equals the path
Matches_ExactOnly(fullTitle, path) == fullTitle = path

\* matches a record also when the path ends with its fullTitle
Matches_EitherWay(fullTitle, path) ==
  fullTitle = path \/ EndsWith(fullTitle, path) \/ EndsWith(path, fullTitle)

\* fullTitle === fullTitlePath || fullTitle.endsWith(fullTitlePath)
Matches(fullTitle, path) == fullTitle = path \/ EndsWith(fullTitle, path)

\* the position of the entry the for-of loop over results.entries() stops at
\* (0 when it runs to the end)
FirstMatch(map, path) ==
  LET hits == {k \in 1..Len(map) : Matches(map[k].key, path)} IN
  IF hits = {} THEN 0 ELSE CHOOSE k \in hits : \A j \in hits : k <= j

\* DiagnosticsProvider.addTestFailure: one more annotation after those the file has
addTestFailure(d, f, testName, line) == Append(d, [file |-> f, test |-> testName, line |-> line])

\* DiagnosticsProvider.clearFileDignostics: diagnosticCollection.delete(uri)
clearFileDignostics(d, f) == SelectSeq(d, LAMBDA a : a.file # f)

\* DiagnosticsProvider.clearAllDiagnostics: diagnosticCollection.clear()
clearAllDiagnostics(d) == <<>>

\* diagnosticCollection.get(uri)
FileDiagnostics(d, f) == SelectSeq(d, LAMBDA a : a.file = f)

\* reports the outcome on the parent of the test as well
ApplyResult_AlsoParent(st, n, rec) ==
  LET state == IF rec.pending THEN "skipped" ELSE IF rec.passed THEN "passed" ELSE "failed" IN
  [reported |-> st.reported \o <<[item |-> n.id, state |-> state],
                                 [item |-> ParentId(n.id), state |-> state]>>,
   diag |-> st.diag]

\* what the matched record does to the run and to the diagnostics
ApplyResult(st, n, rec) ==
  IF rec.pending
  THEN [st EXCEPT !.reported = Append(@, [item |-> n.id, state |-> "skipped"])]
  ELSE IF rec.passed
  THEN [st EXCEPT !.reported = Append(@, [item |-> n.id, state |-> "passed"])]
  ELSE [reported |-> Append(st.reported, [item |-> n.id, state |-> "failed"]),
        diag |-> addTestFailure(st.diag, n.id[1], Label(n), n.line)]

\* updateChildResults over a sequence of siblings, then each one's children
RECURSIVE updateChildResults(_, _, _, _)
updateChildResults(its, ids, map, st) ==
  IF ids = <<>> THEN st
  ELSE LET n == GetItem(its, ids[1])
           hit == FirstMatch(map, buildFullTitlePath(its, n.id))
           kids == Children(its, n.id)
           here == IF n.type = "Test"
                   THEN (IF hit = 0 THEN st ELSE ApplyResult(st, n, map[hit].val))
                   ELSE updateChildResults(its, [k \in 1..Len(kids) |-> kids[k].id], map, st)
       IN updateChildResults(its, Tail(ids), map, here)

\* passes the Tests among the siblings and does not enter the Suites
markAllChildrenPassed_TopOnly(its, ids, rep) ==
  LET tests == SelectSeq(ids, LAMBDA id : GetItem(its, id).type = "Test") IN
  rep \o [k \in 1..Len(tests) |-> [item |-> tests[k], state |-> "passed"]]

\* markAllChildrenPassed over a sequence of siblings: every Test below is passed
RECURSIVE markAllChildrenPassed(_, _, _)
markAllChildrenPassed(its, ids, rep) ==
  IF ids = <<>> THEN rep
  ELSE LET n == GetItem(its, ids[1])
           kids == Children(its, n.id)
           here == IF n.type = "Test"
                   THEN Append(rep, [item |-> n.id, state |-> "passed"])
                   ELSE rep
       IN markAllChildrenPassed(its, Tail(ids),
            markAllChildrenPassed(its, [k \in 1..Len(kids) |-> kids[k].id], here))

\* drops the pending records from the test
allPassed_PassedOnly(map) == \A k \in 1..Len(map) : map[k].val.passed

\* some record passed or is pending
allPassed_Some(map) == \E k \in 1..Len(map) : map[k].val.passed \/ map[k].val.pending

\* Array.from(results.values()).every(r => r.passed || r.pending)
allPassed(map) == \A k \in 1..Len(map) : map[k].val.passed \/ map[k].val.pending

\* updateTestResults(fileItem, run, results): the outcomes reported to the run
\* and the diagnostics afterwards
updateTestResults(its, f, map, rep, d) ==
  LET st == updateChildResults(its, <<<<f>>>>, map, [reported |-> rep, diag |-> d]) IN
  [reported |-> st.reported,
   diag |-> IF allPassed(map) THEN clearFileDignostics(st.diag, f) ELSE st.diag]

-----------------------------------------------------------------------------
(* The runner: a test process per file, its payload, and the reconciliation *)

MaxRuns == 2
MaxOutput == 2

\* a suite with one test and a test of the same label beside it
Text_Recon1 ==
  <<"d", "e", "s", "c", "r", "i", "b", "e", "(", "\"", "A", "\"", ",", " ", "(", ")", " ", "=", ">", " ", "{", "\n", " ", " ", "i", "t", "(", "\"", "b", "\"", ",", " ", "f", "n", ")", ";", "\n", "}", ")", ";", "\n", "i", "t", "(", "\"", "b", "\"", ",", " ", "f", "n", ")", ";">>

\* a suite with one test
Text_Recon2 ==
  <<"d", "e", "s", "c", "r", "i", "b", "e", "(", "\"", "A", "\"", ",", " ", "(", ")", " ", "=", ">", " ", "{", "\n", " ", " ", "i", "t", "(", "\"", "b", "\"", ",", " ", "f", "n", ")", ";", "\n", "}", ")", ";">>

ReconTexts == {Text_Recon1, Text_Recon2}

ReconInit ==
  /\ content \in ReconTexts
  /\ LET parsed == parseFileContent(<<FileItem(F1)>>, CommonTags, F1, content) IN
       /\ items = parsed.items
       /\ tagMap = parsed.tagMap
       /\ sc = parsed.sc
  /\ pc = "done"
  /\ StoreIdle
  /\ ReconIdle
  /\ ContIdle
  /\ StackIdle
  /\ SingleIdle
  /\ LifeIdle
  /\ HeldIdle

\* a test process for the file is spawned: a new testResults map, a new payload
StartProcess(kind, d) ==
  /\ ~run.open
  /\ run.n < MaxRuns
  /\ run' = [kind |-> kind, n |-> run.n + 1, open |-> TRUE, parsed |-> FALSE,
             exit |-> "none", tests |-> <<>>, pending |-> <<>>,
             before |-> FileDiagnostics(d, F1)]
  /\ results' = <<>>
  /\ reported' = <<>>
  /\ diag' = d
  /\ UNCHANGED <<items, tagMap, scanVars, storeVars, contVars, stackVars, singleVars, lifeVars, heldVars>>

\* runTests: clearAllDiagnostics, then runTest -> runFileTests for the file
RunTests == StartProcess("plain", clearAllDiagnostics(diag))

\* runSingleTestExecution (a pass of a continuous run): runTest -> runFileTests
RunSingleTestExecution == StartProcess("plain", diag)

\* runTestsWithCoverage: runTestWithCoverage -> runFileTestsWithCoverage
RunTestsWithCoverage == StartProcess("coverage", diag)

\* the payload on stdout gains an element of its tests array
StdoutTest ==
  /\ run.open
  /\ run.pending = <<>>
  /\ Len(run.tests) < MaxOutput
  /\ \E e \in TestEntries : run' = [run EXCEPT !.tests = Append(@, e)]
  /\ UNCHANGED <<items, tagMap, scanVars, storeVars, results, reported, diag, contVars, stackVars, singleVars, lifeVars, heldVars>>

\* the payload on stdout gains an element of its pending array
StdoutPending ==
  /\ run.open
  /\ Len(run.tests) + Len(run.pending) < MaxOutput
  /\ \E t \in Titles : run' = [run EXCEPT !.pending = Append(@, t)]
  /\ UNCHANGED <<items, tagMap, scanVars, storeVars, results, reported, diag, contVars, stackVars, singleVars, lifeVars, heldVars>>

\* the close handler with a payload that parses: the records are stored and
\* updateTestResults walks the tree
ProcessCloses ==
  /\ run.open
  /\ LET map == IF run.kind = "plain" THEN PlainResults(run.tests, run.pending)
                ELSE CoverageResults(run.tests, run.pending)
         after == updateTestResults(items, F1, map, <<>>, diag)
     IN /\ results' = map
        /\ reported' = after.reported
        /\ diag' = after.diag
  /\ run' = [run EXCEPT !.open = FALSE, !.parsed = TRUE]
  /\ UNCHANGED <<items, tagMap, scanVars, storeVars, contVars, stackVars, singleVars, lifeVars, heldVars>>

\* the exit codes told apart by the close handler: code === 0 or not
ExitCodes == {"zero", "nonzero"}

\* the close handler with a stdout that JSON.parse rejects: runFileTests marks
\* every test passed when the exit code is 0, runFileTestsWithCoverage only
\* logs; both write the failure to the output channel and go on to
\* updateTestResults with the empty map
ProcessClosesUnparsed(code) ==
  /\ run.open
  /\ run.tests = <<>> /\ run.pending = <<>>
  /\ LET kids == Children(items, <<F1>>)
         marked == IF run.kind = "plain" /\ code = "zero"
                   THEN markAllChildrenPassed(items, [k \in 1..Len(kids) |-> kids[k].id], <<>>)
                   ELSE <<>>
         after == updateTestResults(items, F1, <<>>, marked, diag)
     IN /\ results' = <<>>
        /\ reported' = after.reported
        /\ diag' = after.diag
  /\ run' = [run EXCEPT !.open = FALSE, !.exit = code]
  /\ log' = Append(log, [kind |-> "parse failed", call |-> run.n])
  /\ UNCHANGED <<items, tagMap, scanVars, calls, contVars, stackVars, singleVars, lifeVars, heldVars>>

ReconNext ==
  \/ RunTests
  \/ RunSingleTestExecution
  \/ RunTestsWithCoverage
  \/ StdoutTest
  \/ StdoutPending
  \/ ProcessCloses
  \/ \E code \in ExitCodes : ProcessClosesUnparsed(code)

SpecRecon == ReconInit /\ [][ReconNext]_vars

-----------------------------------------------------------------------------
(* Properties of the reconciliation *)

\* a test process has closed, its payload parsed and has been reconciled
Reconciled == run.kind # "none" /\ ~run.open /\ run.parsed

\* the Test nodes of the tree
TestNodes == {k \in 1..Len(items) : items[k].type = "Test"}

PathOf(k) == buildFullTitlePath(items, items[k].id)

\* the outcomes the run has for a node
OutcomesOf(k) == {reported[j].state : j \in {i \in 1..Len(reported) : reported[i].item = items[k].id}}

\* the outcome a record stands for
RecordOutcome(rec) == IF rec.pending THEN "skipped" ELSE IF rec.passed THEN "passed" ELSE "failed"

\* the positions of the records whose fullTitle is the path, and of those whose
\* fullTitle is the path or ends with it
ExactRecords(path) == {j \in 1..Len(results) : results[j].key = path}
SuffixRecords(path) ==
  {j \in 1..Len(results) : results[j].key = path \/ EndsWith(results[j].key, path)}

\* C5 as stated: if each Test node has exactly one record whose fullTitle equals
\* its path, then after the reconciliation each node has the outcome of its record.
C5_ExactRecordsDecide ==
  (Reconciled /\ \A k \in TestNodes : Cardinality(ExactRecords(PathOf(k))) = 1) =>
    \A k \in TestNodes : \A j \in ExactRecords(PathOf(k)) :
      OutcomesOf(k) = {RecordOutcome(results[j].val)}

\* C5 amended: a Test node whose record of equal fullTitle has no record before
\* it whose fullTitle ends with the node's path has the outcome of that record.
C5_ExactRecordDecidesUnlessPreceded ==
  Reconciled =>
    \A k \in TestNodes : \A j \in ExactRecords(PathOf(k)) :
      (\A i \in SuffixRecords(PathOf(k)) : j <= i) =>
        OutcomesOf(k) = {RecordOutcome(results[j].val)}

\* both tests of the first tree have a record of their own, in an order in which
\* neither is preceded by a longer title, and the two outcomes differ
C5_Witness ==
  /\ Reconciled
  /\ content = Text_Recon1
  /\ Len(results) = 2
  /\ results[1].key = Title_b /\ results[2].key = Title_Ab
  /\ results[1].val.passed /\ ~results[2].val.passed
  /\ \A k \in TestNodes : OutcomesOf(k) # {}

\* C6: a Test node with no record whose fullTitle is its path or ends with it
\* has no outcome after the reconciliation.
C6_NoMatchNoOutcome ==
  Reconciled =>
    \A k \in TestNodes : SuffixRecords(PathOf(k)) = {} => OutcomesOf(k) = {}

\* the payload parsed and had a record, but none for the node of the tree
C6_Witness ==
  /\ Reconciled
  /\ content = Text_Recon2
  /\ results # <<>>
  /\ \A k \in TestNodes : SuffixRecords(PathOf(k)) = {} /\ OutcomesOf(k) = {}

\* the payload's last word on a title: an element of the pending array, or the
\* last element of the tests array with that title has pending or skipped true
ReportedPending(title) ==
  \/ \E j \in 1..Len(run.pending) : run.pending[j] = title
  \/ \E j \in 1..Len(run.tests) :
       /\ run.tests[j].fullTitle = title
       /\ \A i \in (j + 1)..Len(run.tests) : run.tests[i].fullTitle # title
       /\ run.tests[j].pending \/ run.tests[j].skipped

\* C7: a node whose matched record the test process reported pending is skipped,
\* whatever the record says of errors.
C7_PendingIsSkipped ==
  Reconciled =>
    \A k \in TestNodes :
      LET hit == FirstMatch(results, PathOf(k)) IN
      (hit # 0 /\ ReportedPending(results[hit].key)) => OutcomesOf(k) = {"skipped"}

\* C8: a Test node with a record whose fullTitle is its path, or ends with its
\* path at any character position, has an outcome after the reconciliation.
C8_EqualOrSuffixMatches ==
  Reconciled =>
    \A k \in TestNodes :
      (\E j \in 1..Len(results) :
         results[j].key = PathOf(k) \/ EndsWith(results[j].key, PathOf(k)))
      => Cardinality(OutcomesOf(k)) = 1

\* path "A b" against the titles "X A b" and "ZA b" alone
C8_Witness ==
  /\ Reconciled
  /\ content = Text_Recon2
  /\ Len(results) = 2
  /\ {results[1].key, results[2].key} = {Title_XAb, Title_ZAb}
  /\ \A k \in TestNodes : PathOf(k) = Title_Ab /\ OutcomesOf(k) # {}

\* C9 as stated: if every node that received an outcome is passed or skipped,
\* the file has no annotations after the pass.
C9_ClearedWhenNodesPass ==
  (Reconciled /\ \A j \in 1..Len(reported) : reported[j].state \in {"passed", "skipped"}) =>
    FileDiagnostics(diag, F1) = <<>>

\* C9 amended: if every record of the pass, matched to a node or not, is passed
\* or pending, the file has no annotations after the pass.
C9_ClearedWhenRecordsPass ==
  (Reconciled /\ \A j \in 1..Len(results) : results[j].val.passed \/ results[j].val.pending) =>
    FileDiagnostics(diag, F1) = <<>>

\* a pass that began with annotations on the file, and whose records are all
\* passed or pending, one of them pending
C9_Witness ==
  /\ Reconciled
  /\ run.before # <<>>
  /\ results # <<>>
  /\ \A j \in 1..Len(results) : results[j].val.passed \/ results[j].val.pending
  /\ \E j \in 1..Len(results) : results[j].val.pending
  /\ reported # <<>>
  /\ FileDiagnostics(diag, F1) = <<>>

-----------------------------------------------------------------------------
(* Properties of the tree store *)

\* the File node of f and everything below it, in tree order
Subtree(its, f) == SelectSeq(its, LAMBDA n : n.id[1] = f)

\* the scan of a text for a file in a tree that holds nothing but the File
\* node, with the tags of the constructor
FreshScan(f, text) == parseFileContent(<<FileItem(f)>>, CommonTags, f, text).items

\* call k has read its text and run parseFileContent
Scanned(k) == calls[k].state = "resolved" /\ calls[k].read \in ReadResults \ {ReadRejected}

\* the log ends with the entry call k wrote when it finished
FinishedLast(k) == log # <<>> /\ log[Len(log)].call = k /\ log[Len(log)].kind # "parsing"

\* C11: right after a scan of text T for file f the subtree of f is the tree a
\* scan of T gives in an empty store, whatever the store held before; so two
\* scans of the same text for the same file give trees with the same ids,
\* labels, tag sets, nesting and order.
C11_RescanSameTree ==
  \A k \in 1..Len(calls) :
    (Scanned(k) /\ FinishedLast(k)) =>
      Subtree(items, calls[k].file) = FreshScan(calls[k].file, calls[k].read.text)

\* the same text was scanned twice for F1, and the tree has nodes with tags
C11_Witness ==
  /\ Len(calls) = 2
  /\ Scanned(1) /\ Scanned(2) /\ FinishedLast(2)
  /\ calls[1].file = F1 /\ calls[2].file = F1
  /\ calls[1].read = calls[2].read
  /\ \E j \in 1..Len(items) : items[j].tags # <<>>

\* C12: a scan that read its text leaves the File node of its file where and
\* as it was, makes the subtree of the file the scan of that text alone, and
\* leaves the subtree of every other file unchanged.
C12_RescanReplacesSubtree ==
  [][\A k \in 1..Len(calls) :
       (/\ calls[k].state = "awaiting"
        /\ calls[k].read \in ReadResults \ {ReadRejected}
        /\ calls'[k].state # "awaiting")
       => /\ Subtree(items', calls[k].file) = FreshScan(calls[k].file, calls[k].read.text)
          /\ \E j \in 1..Len(items) :
               items[j].id = <<calls[k].file>> /\ items'[j] = items[j]
          /\ \A g \in Files \ {calls[k].file} : Subtree(items', g) = Subtree(items, g)]_vars

\* F1 was scanned with one text and then with another, and none of the nodes
\* of the first scan is left
C12_Witness ==
  /\ Len(calls) = 2
  /\ Scanned(1) /\ Scanned(2) /\ FinishedLast(2)
  /\ calls[1].file = F1 /\ calls[2].file = F1
  /\ calls[1].read.text = Text_TagNest /\ calls[2].read.text = Text_C3Lines
  /\ Subtree(items, F1) = FreshScan(F1, Text_C3Lines)
  /\ Len(items) = 3

-----------------------------------------------------------------------------
(* Further properties of the scanner *)

\* the nodes a step of the scan has put into the tree
NewNodes == {k \in 1..Len(items') : \A j \in 1..Len(items) : items[j] # items'[k]}

\* C13: every node a scan step creates has the id of its parent + "/" + its
\* label and is the only node of that id; it is the node of the line just
\* scanned, and when a node of that id was there before, that node and all
\* that was below it are gone.
C13_SiblingIdsOverwrite ==
  [][\A k \in NewNodes :
       LET n == items'[k] IN
       /\ HasItem(items', ParentId(n.id))
       /\ IdString(n.id) = IdString(ParentId(n.id)) \o <<"/">> \o Label(n)
       /\ Cardinality({j \in 1..Len(items') : items'[j].id = n.id}) = 1
       /\ n.line = sc.i
       /\ HasItem(items, n.id) =>
            /\ GetItem(items, n.id).line < n.line
            /\ \A j \in 1..Len(items') : ~IsBelow(items'[j].id, n.id)]_vars

\* a suite with a test, then a suite of the same name: the second suite is
\* the only node left
C13_Witness ==
  /\ ScanDone
  /\ sc.lines = <<Body_describeA, Spaces(2) \o Body_itB, Body_describeA>>
  /\ Len(items) = 2
  /\ items[2].type = "Suite" /\ items[2].line = 2

\* the indentation steps the texts are tried against
IndentSteps == {1, 2, 4}

\* every nesting level of the text is indented by the same step, and the
\* closing line of a block is in the column of the line that opened it
ConsistentlyIndented(lines, step) ==
  \A k \in 1..Len(lines) :
    IsBlankOrComment(lines[k]) \/
      Indent(lines[k]) =
        step * (Len(OpenBlocks(lines, k)) - (IF suiteEndRegex(lines[k]) THEN 1 ELSE 0))

\* the describe lines whose blocks are open before line k, outermost first
EnclosingSuiteLines(lines, k) ==
  SelectSeq(OpenBlocks(lines, k), LAMBDA j : LineKind(lines[j]) = "describe")

\* C14: when the scan of a consistently indented text is over, every Suite and
\* Test node is a child of the Suite of the describe line whose block directly
\* encloses its declaration, or of the File node when there is none (checked
\* on the texts without a skipped suite, where it already fails).
C14_TreeMirrorsNesting ==
  (/\ ScanDone
   /\ \E step \in IndentSteps : ConsistentlyIndented(sc.lines, step)
   /\ \A k \in 1..Len(sc.lines) : ~IsSkippedSuiteLine(sc.lines[k]))
  => \A j \in 2..Len(items) :
       LET n == items[j]
           enc == EnclosingSuiteLines(sc.lines, n.line + 1)
       IN IF enc = <<>> THEN ParentId(n.id) = <<F1>>
          ELSE /\ HasItem(items, ParentId(n.id))
               /\ GetItem(items, ParentId(n.id)).type = "Suite"
               /\ GetItem(items, ParentId(n.id)).line = enc[Len(enc)] - 1

-----------------------------------------------------------------------------
(* Further properties of the reconciler *)

\* the positions of reported that name the node
ReportsOf(id) == {j \in 1..Len(reported) : reported[j].item = id}

\* C19: a reconciliation pass assigns at most one outcome to each Test node and
\* never assigns an outcome to a File or Suite node
C19_OneOutcomePerTest ==
  Reconciled =>
    /\ \A j \in 1..Len(reported) :
         /\ HasItem(items, reported[j].item)
         /\ GetItem(items, reported[j].item).type = "Test"
    /\ \A k \in 1..Len(items) : Cardinality(ReportsOf(items[k].id)) <= 1

\* a suite with a test and a second test beside it, both given an outcome by
\* the records of one payload
C19_Witness ==
  /\ Reconciled
  /\ content = Text_Recon1
  /\ \E k \in 1..Len(items) : items[k].type = "Suite"
  /\ \A k \in TestNodes : Cardinality(ReportsOf(items[k].id)) = 1
  /\ Len(reported) = 2

\* C20: the full-title path of a node is the labels of the node and of its
\* ancestors except the File node, from the root down, joined by single spaces
C20_FullTitlePathIsLabelChain ==
  \A k \in 1..Len(items) :
    LET id == items[k].id
        chain == [j \in 1..(Len(id) - 1) |-> Label(GetItem(items, SubSeq(id, 1, j + 1)))]
    IN /\ buildFullTitlePath(items, id) = Join(chain, <<" ">>)
       /\ items[k].type = "File" => buildFullTitlePath(items, id) = <<>>

\* a test two suites deep, whose path has three labels and two spaces
C20_Witness ==
  /\ ScanDone
  /\ \E k \in 1..Len(items) :
       /\ items[k].type = "Test"
       /\ Len(items[k].id) = 4
       /\ Len(SelectSeq(buildFullTitlePath(items, items[k].id), LAMBDA c : c = " ")) = 2

-----------------------------------------------------------------------------
(* Continuous run mode: runContinuousTests and the passes it dispatches *)

MaxSaves == 3

\* what request.include holds: nothing, or File items (the model runs whole files)
Includes == {<<>>, <<F1>>, <<F1, F2>>}

\* the File nodes controller.items holds while the continuous run lasts
ContTrees == {<<FileItem(F1)>>, <<FileItem(F1), FileItem(F2)>>}

\* what findTestFilesForSource resolves to for the saved source file
FoundSets == {<<>>, <<F2>>, <<F1, F2>>}

\* Set.add of each uri, in insertion order
RECURSIVE AddAll(_, _)
AddAll(q, files) ==
  IF files = <<>> THEN q
  ELSE AddAll(IF files[1] \in Range(q) THEN q ELSE Append(q, files[1]), Tail(files))

\* starts the next item whatever the token says
ContinuePass_IgnoreToken(p, cancelled) ==
  LET q == {k \in 1..Len(p.tests) : p.tests[k].st = "queued"} IN
  IF q = {} THEN [p EXCEPT !.ended = TRUE]
  ELSE [p EXCEPT !.tests[CHOOSE j \in q : \A i \in q : j <= i].st = "running"]

\* the loop of runSingleTestExecution from its next item to its next await:
\* every item met while the token is cancelled is skipped, the first one met
\* otherwise is started; past the last item the run is ended
RECURSIVE ContinuePass(_, _)
ContinuePass(p, cancelled) ==
  LET q == {k \in 1..Len(p.tests) : p.tests[k].st = "queued"} IN
  IF q = {} THEN [p EXCEPT !.ended = TRUE]
  ELSE LET k == CHOOSE j \in q : \A i \in q : j <= i IN
       IF cancelled
       THEN ContinuePass([p EXCEPT !.tests[k].st = "skipped"], cancelled)
       ELSE [p EXCEPT !.tests[k].st = "running"]

\* runSingleTestExecution up to its first await: the run is created, the queue
\* is filled from request.include, the loop starts
NewPass(files, timer, cancelled) ==
  ContinuePass([tests |-> [k \in 1..Len(files) |-> [file |-> files[k], st |-> "queued"]],
                ended |-> FALSE, timer |-> timer, late |-> cancelled], cancelled)

\* sets a new timer without clearing the one armed before
QueueAndArm_NoClear(c, files) ==
  [c EXCEPT !.queuedTestFiles = AddAll(@, files),
            !.armed = @ \cup {c.debounceTimer + 1},
            !.debounceTimer = @ + 1]

\* the tail of handleFileChange: the files are queued, the timer is cleared and
\* a new one is set
QueueAndArm(c, files) ==
  [c EXCEPT !.queuedTestFiles = AddAll(@, files),
            !.armed = (@ \ {c.debounceTimer}) \cup {c.debounceTimer + 1},
            !.debounceTimer = @ + 1]

\* request.include filtered by the queue, else the queued files controller.items has
testsToRun(c, its) ==
  LET included == SelectSeq(c.include, LAMBDA f : f \in Range(c.queuedTestFiles)) IN
  IF included # <<>> THEN included
  ELSE SelectSeq(c.queuedTestFiles, LAMBDA f : HasItem(its, <<f>>))

\* the callback of the debounce timer
DebounceCallback(c, its, id) ==
  LET fired == [c EXCEPT !.armed = @ \ {id}, !.expired = @ + 1] IN
  IF c.queuedTestFiles = <<>> THEN fired
  ELSE LET tests == testsToRun(c, its) IN
       [fired EXCEPT !.queuedTestFiles = <<>>,
                     !.passes = IF tests = <<>> THEN @
                                ELSE Append(@, NewPass(tests, id, c.cancelled))]

\* runContinuousTests was called: the watcher and the cancellation handler are
\* registered and the initial pass, if any, has started
ContInit ==
  /\ \E tree \in ContTrees, inc \in Includes :
       /\ \A k \in 1..Len(inc) : HasItem(tree, <<inc[k]>>)
       /\ items = tree
       /\ cont = [ContNone EXCEPT !.include = inc,
                                  !.passes = IF inc = <<>> THEN <<>>
                                             ELSE <<NewPass(inc, 0, FALSE)>>]
  /\ tagMap = CommonTags
  /\ ScanIdle
  /\ StoreIdle
  /\ ReconIdle
  /\ StackIdle
  /\ SingleIdle
  /\ LifeIdle
  /\ HeldIdle

\* onDidSaveTextDocument for a test file: handleFileChange runs to its end
SaveTestFile(f) ==
  /\ ~cont.cancelled
  /\ cont.saves < MaxSaves
  /\ cont' = QueueAndArm([cont EXCEPT !.saves = @ + 1], <<f>>)
  /\ UNCHANGED <<items, tagMap, scanVars, storeVars, reconVars, stackVars, singleVars, lifeVars, heldVars>>

\* onDidSaveTextDocument for a source file: handleFileChange awaits
\* findTestFilesForSource
SaveSourceFile ==
  /\ ~cont.cancelled
  /\ cont.saves < MaxSaves
  /\ cont' = [cont EXCEPT !.saves = @ + 1, !.lookups = @ + 1]
  /\ UNCHANGED <<items, tagMap, scanVars, storeVars, reconVars, stackVars, singleVars, lifeVars, heldVars>>

\* findTestFilesForSource resolves and handleFileChange goes on
FindTestFilesReturns(found) ==
  /\ cont.lookups > 0
  /\ cont' = IF found = <<>> THEN [cont EXCEPT !.lookups = @ - 1]
             ELSE QueueAndArm([cont EXCEPT !.lookups = @ - 1], found)
  /\ UNCHANGED <<items, tagMap, scanVars, storeVars, reconVars, stackVars, singleVars, lifeVars, heldVars>>

\* an armed timer expires and its callback runs
TimerExpires ==
  /\ \E id \in cont.armed : cont' = DebounceCallback(cont, items, id)
  /\ UNCHANGED <<items, tagMap, scanVars, storeVars, reconVars, stackVars, singleVars, lifeVars, heldVars>>

\* runTest of the item in progress returns: its file was run and reconciled,
\* and the loop of the pass goes on
FileRunCompletes(p) ==
  /\ \E k \in 1..Len(cont.passes[p].tests) :
       /\ cont.passes[p].tests[k].st = "running"
       /\ cont' = [cont EXCEPT !.passes[p] =
                     ContinuePass([@ EXCEPT !.tests[k].st = "done"], cont.cancelled)]
  /\ UNCHANGED <<items, tagMap, scanVars, storeVars, reconVars, stackVars, singleVars, lifeVars, heldVars>>

\* token.onCancellationRequested: the timer is cleared, the watcher disposed
Cancel ==
  /\ ~cont.cancelled
  /\ cont' = [cont EXCEPT !.cancelled = TRUE, !.armed = @ \ {cont.debounceTimer}]
  /\ UNCHANGED <<items, tagMap, scanVars, storeVars, reconVars, stackVars, singleVars, lifeVars, heldVars>>

ContNext ==
  \/ \E f \in Files : SaveTestFile(f)
  \/ SaveSourceFile
  \/ \E found \in FoundSets : FindTestFilesReturns(found)
  \/ TimerExpires
  \/ \E p \in 1..Len(cont.passes) : FileRunCompletes(p)
  \/ Cancel

SpecCont == ContInit /\ [][ContNext]_vars

-----------------------------------------------------------------------------
(* Properties of the continuous run *)

\* the files of a pass, in the order the pass takes them
PassFiles(p) == [k \in 1..Len(p.tests) |-> p.tests[k].file]

\* the step ran the tail of handleFileChange: a new timer was set
Accepted == cont'.debounceTimer # cont.debounceTimer

\* the step ran the callback of a timer
Expired == cont'.expired # cont.expired

\* C15: every accepted change notification adds its test files to the pending set
\* and re-arms one timer, cancelling the one armed before, so at most one timer
\* is armed at any time and the notifications accepted before a timer expires
\* result in a single batched pass when it does
C15_DebounceRearmsOneTimer ==
  [][/\ Cardinality(cont'.armed) <= 1
     /\ \A f \in Files : SaveTestFile(f) => Accepted /\ f \in Range(cont'.queuedTestFiles)
     /\ \A found \in FoundSets \ {<<>>} :
          FindTestFilesReturns(found) =>
            Accepted /\ Range(found) \subseteq Range(cont'.queuedTestFiles)
     /\ Accepted =>
          /\ cont'.armed = {cont'.debounceTimer}
          /\ cont'.debounceTimer \notin cont.armed
          /\ Range(cont.queuedTestFiles) \subseteq Range(cont'.queuedTestFiles)
          /\ cont'.expired = cont.expired /\ cont'.passes = cont.passes
     /\ Expired =>
          /\ cont'.expired = cont.expired + 1
          /\ cont.armed # {} /\ cont'.armed = {}
          /\ Len(cont'.passes) <= Len(cont.passes) + 1
          /\ Len(cont'.passes) = Len(cont.passes) + 1 =>
               Range(PassFiles(cont'.passes[Len(cont'.passes)])) \subseteq Range(cont.queuedTestFiles)
     /\ ~Expired => Len(cont'.passes) = Len(cont.passes)]_vars

\* three notifications before the first expiry, two of them for the same file,
\* then one expiry and one pass with both files
C15_Witness ==
  /\ cont.include = <<>>
  /\ cont.saves = 3
  /\ cont.debounceTimer = 3
  /\ cont.expired = 1
  /\ cont.armed = {}
  /\ Len(cont.passes) = 1
  /\ Range(PassFiles(cont.passes[1])) = {F1, F2}

\* C16: when the timer expires the pending set is emptied and every file that
\* was in it and has a File node in the tree is run in the pass dispatched at
\* that expiry
C16_ExpiryRunsEveryQueuedFile ==
  [][Expired =>
       /\ cont'.queuedTestFiles = <<>>
       /\ \A f \in Range(cont.queuedTestFiles) :
            HasItem(items, <<f>>) =>
              /\ Len(cont'.passes) = Len(cont.passes) + 1
              /\ f \in Range(PassFiles(cont'.passes[Len(cont'.passes)]))]_vars

\* C17: from the cancellation on no timer is armed and no new pass is
\* dispatched, also when a notification was being processed at that moment
C17_NothingAfterCancellation ==
  [][/\ cont'.cancelled => cont'.armed = {}
     /\ cont.cancelled => Len(cont'.passes) = Len(cont.passes)
     /\ cont.cancelled => cont'.saves = cont.saves]_vars

\* the passes dispatched before the cancellation
EarlyPasses == {p \in 1..Len(cont.passes) : ~cont.passes[p].late}

\* C18 as stated: a pass dispatched before the cancellation has every item
\* executed and reconciled, and its run is ended
C18_PassRunsEveryItem ==
  \A p \in EarlyPasses :
    /\ \A k \in 1..Len(cont.passes[p].tests) : cont.passes[p].tests[k].st # "skipped"
    /\ cont.passes[p].ended =>
         \A k \in 1..Len(cont.passes[p].tests) : cont.passes[p].tests[k].st = "done"

\* C18, amended: of a pass dispatched before the cancellation, the file run in
\* progress when the cancellation arrives is completed and reconciled, every
\* item not yet started is reported skipped without being run, only a
\* cancellation makes an item skipped, and the run is ended once no item is left
C18_PassSkipsRestAfterCancellation ==
  [][\A p \in EarlyPasses :
       LET old == cont.passes[p]
           new == cont'.passes[p]
       IN /\ PassFiles(new) = PassFiles(old)
          /\ \A k \in 1..Len(old.tests) :
               /\ old.tests[k].st = "running" => new.tests[k].st \in {"running", "done"}
               /\ old.tests[k].st \in {"done", "skipped"} => new.tests[k].st = old.tests[k].st
               /\ old.tests[k].st = "queued" /\ new.tests[k].st = "skipped" => cont.cancelled
               /\ cont.cancelled /\ old.tests[k].st = "running" /\ new.tests[k].st = "done" =>
                    /\ new.ended
                    /\ \A j \in 1..Len(new.tests) :
                         old.tests[j].st = "queued" => new.tests[j].st = "skipped"
          /\ new.ended <=> \A k \in 1..Len(new.tests) : new.tests[k].st \in {"done", "skipped"}
          /\ old.ended => new = old]_vars

\* a pass of two files dispatched before the cancellation, cancelled while its
\* first file ran: the first is done, the second skipped, the run ended
C18_Witness ==
  /\ cont.cancelled
  /\ \E p \in EarlyPasses :
       /\ cont.passes[p].timer # 0
       /\ cont.passes[p].ended
       /\ Len(cont.passes[p].tests) = 2
       /\ cont.passes[p].tests[1].st = "done"
       /\ cont.passes[p].tests[2].st = "skipped"

-----------------------------------------------------------------------------
(* Properties of the run start and of the parse-failure fallback *)

\* the step started a test run
RunStarted == run'.n = run.n + 1

\* C21: the failure annotations of earlier runs are cleared at the start of
\* every test run, whichever way the run is started
C21_ClearedAtRunStart ==
  [][RunStarted => diag' = <<>>]_vars

-----------------------------------------------------------------------------
(* Tag profiles: runTests without an include list *)

\* the tags of the tag-specific run profiles
ProfileTags == {<<"u","n","i","t">>, <<"i","n","t","e","g","r","a","t","i","o","n">>, <<"e","2","e">>}

\* collectTestsWithTag over a sequence of siblings: an item that has the tag is
\* queued and not entered, any other item is entered
RECURSIVE collectTestsWithTag(_, _, _)
collectTestsWithTag(its, ids, tag) ==
  IF ids = <<>> THEN <<>>
  ELSE LET n == GetItem(its, ids[1])
           kids == Children(its, n.id)
           here == IF tag \in Range(n.tags) THEN <<n.id>>
                   ELSE collectTestsWithTag(its, [k \in 1..Len(kids) |-> kids[k].id], tag)
       IN here \o collectTestsWithTag(its, Tail(ids), tag)

\* the queue of runTests for a profile with a tag and no include list
TagQueue(its, tag) ==
  LET files == SelectSeq(its, LAMBDA n : n.type = "File") IN
  collectTestsWithTag(its, [k \in 1..Len(files) |-> files[k].id], tag)

\* runTest over a sequence of items: a File runs its whole file, a Suite runs
\* its children, a Test runs itself; the result is the Test nodes executed
RECURSIVE runTest(_, _)
runTest(its, ids) ==
  IF ids = <<>> THEN <<>>
  ELSE LET n == GetItem(its, ids[1])
           kids == Children(its, n.id)
           below == SelectSeq(its, LAMBDA x : x.type = "Test" /\ IsBelow(x.id, n.id))
           here == IF n.type = "Test" THEN <<n.id>>
                   ELSE IF n.type = "Suite"
                   THEN runTest(its, [k \in 1..Len(kids) |-> kids[k].id])
                   ELSE [k \in 1..Len(below) |-> below[k].id]
       IN here \o runTest(its, Tail(ids))

\* C22: a run through a tag profile without an include list executes the Test
\* nodes that carry the profile's tag, all of them and no others
C22_TagProfileRunsTaggedTests ==
  ScanDone =>
    \A tag \in ProfileTags :
      Range(runTest(items, TagQueue(items, tag))) =
        {items[k].id : k \in {j \in 1..Len(items) : items[j].type = "Test" /\ tag \in Range(items[j].tags)}}

-----------------------------------------------------------------------------
(* The parse-failure fallback *)

\* the last file run has ended and its payload did not parse
Unparsed == run.kind # "none" /\ ~run.open /\ ~run.parsed

\* the failure was written to the output channel and the file run returned
LoggedAndEnded ==
  /\ log # <<>>
  /\ log[Len(log)] = [kind |-> "parse failed", call |-> run.n]
  /\ ~run.open

\* C23 as stated: after a payload that does not parse, every Test node under
\* the File is passed when the exit code was 0 and none has an outcome
\* otherwise; the failure is logged and the run goes on
C23_FallbackByExitCode ==
  Unparsed =>
    /\ run.exit = "zero" => \A k \in TestNodes : OutcomesOf(k) = {"passed"}
    /\ run.exit # "zero" => reported = <<>>
    /\ LoggedAndEnded

\* C23, amended: the exit code decides in a plain file run only; in a coverage
\* file run, where the exit code does not reach the runner, no Test node has
\* an outcome whatever the exit code
C23_FallbackByExitCodeInPlainRuns ==
  Unparsed =>
    /\ (run.kind = "plain" /\ run.exit = "zero") =>
         /\ \A k \in TestNodes : OutcomesOf(k) = {"passed"}
         /\ \A j \in 1..Len(reported) : GetItem(items, reported[j].item).type = "Test"
    /\ (run.kind # "plain" \/ run.exit # "zero") => reported = <<>>
    /\ LoggedAndEnded

\* a plain run of a file with a test in a suite and a test beside it, exit
\* code 0 and a payload that does not parse: both tests passed
C23_Witness ==
  /\ Unparsed
  /\ run.kind = "plain" /\ run.exit = "zero"
  /\ content = Text_Recon1
  /\ Len(reported) = 2
  /\ \A k \in TestNodes : OutcomesOf(k) = {"passed"}

-----------------------------------------------------------------------------
(* The open-node stack and the suppression boundary *)

\* the indentation the scan's line list records for an open node (-1 for the File)
DeclaredIndent(id) ==
  IF Len(id) = 1 THEN -1 ELSE Indent(sc.lines[GetItem(items, id).line + 1])

\* the open node left on top after popping while indent <= the indentation of the top
NearestOpenBelow(indent) ==
  LET fits == {j \in 1..Len(sc.suiteStack) : DeclaredIndent(sc.suiteStack[j]) < indent} IN
  sc.suiteStack[CHOOSE j \in fits : \A i \in fits : i <= j]

\* C25: a Suite created by a scan step is a child of the nearest open node
\* declared with strictly smaller indentation than its line, or of the File
C25_SuiteUnderNearestOpenNode ==
  [][\A k \in NewNodes :
       items'[k].type = "Suite" =>
         ParentId(items'[k].id) = NearestOpenBelow(Indent(sc.lines[sc.i + 1]))]_vars

\* the line the step scans
ScannedLine == sc.lines[sc.i + 1]

\* the step is an iteration of the scan loop
ScanStep == pc = "scan" /\ ~LoopEnded(sc) /\ sc'.i = sc.i + 1

\* C26: while a suppression boundary is active only deeper lines are ignored,
\* and the first line of any kind at or below the boundary clears it
C26_BoundaryClearedByAnyLine ==
  [][(ScanStep /\ sc.skippedBlockIndent # NoSkip /\ ~IsBlankOrComment(ScannedLine)
        /\ Indent(ScannedLine) <= sc.skippedBlockIndent) =>
       \/ sc'.skippedBlockIndent = NoSkip
       \/ /\ describeRegex(ScannedLine).ok
          /\ IsSkipped(describeRegex(ScannedLine))
          /\ sc'.skippedBlockIndent = Indent(ScannedLine)]_vars

\* the ids, types and tags of the nodes, in tree order
Shape(its) == [k \in 1..Len(its) |-> [id |-> its[k].id, type |-> its[k].type, tags |-> its[k].tags]]

\* the text without its blank lines and comment lines
WithoutBlankAndCommentLines(text) ==
  Join(SelectSeq(SplitLines(text), LAMBDA l : ~IsBlankOrComment(l)), <<"\n">>)

-----------------------------------------------------------------------------
(* Further properties of the matching and of the outcomes *)

\* C27: a Test node has the outcome of the first record, in the order of the
\* map, whose fullTitle is its path or ends with it; later matching records,
\* one of equal fullTitle included, do not count
C27_FirstMatchingRecordWins ==
  Reconciled =>
    \A k \in TestNodes : \A j \in SuffixRecords(PathOf(k)) :
      (\A i \in SuffixRecords(PathOf(k)) : j <= i) =>
        /\ OutcomesOf(k) = {RecordOutcome(results[j].val)}
        /\ Cardinality(ReportsOf(items[k].id)) = 1

\* the failed record "X A b" comes before the passed record "A b": the node of
\* path "A b" is failed
C27_Witness ==
  /\ Reconciled
  /\ content = Text_Recon2
  /\ Len(results) = 2
  /\ results[1].key = Title_XAb /\ ~results[1].val.passed /\ ~results[1].val.pending
  /\ results[2].key = Title_Ab /\ results[2].val.passed
  /\ \A k \in TestNodes : PathOf(k) = Title_Ab /\ OutcomesOf(k) = {"failed"}

\* the last element of the payload's tests array with the title
LastEntry(title) ==
  LET at == {j \in 1..Len(run.tests) : run.tests[j].fullTitle = title} IN
  run.tests[CHOOSE j \in at : \A i \in at : i <= j]

\* the failed outcomes of the pass, in the order they were reported
FailedReports == SelectSeq(reported, LAMBDA r : r.state = "failed")

\* C28: a matched record that is not pending yields passed if and only if its
\* err is absent or an empty object, and failed otherwise; every failed
\* outcome adds one annotation for the Test's file
C28_ErrorPayloadDecides ==
  Reconciled =>
    /\ \A k \in TestNodes :
         LET hit == FirstMatch(results, PathOf(k)) IN
         (hit # 0 /\ ~results[hit].val.pending) =>
           OutcomesOf(k) = {IF LastEntry(results[hit].key).err \in {"none", "empty"}
                            THEN "passed" ELSE "failed"}
    /\ FailedReports # <<>> =>
         FileDiagnostics(diag, F1) =
           run.before \o [j \in 1..Len(FailedReports) |->
                            [file |-> F1,
                             test |-> Label(GetItem(items, FailedReports[j].item)),
                             line |-> GetItem(items, FailedReports[j].item).line]]

\* one test passed on an empty err object, the other failed on an error, and
\* the file has the one annotation of the failed test
C28_Witness ==
  /\ Reconciled
  /\ content = Text_Recon1
  /\ Len(results) = 2
  /\ \E j \in 1..Len(run.tests) : run.tests[j].err = "empty"
  /\ {reported[j].state : j \in 1..Len(reported)} = {"passed", "failed"}
  /\ Len(reported) = 2
  /\ Len(FileDiagnostics(diag, F1)) = Len(run.before) + 1

-----------------------------------------------------------------------------
(* Concurrent rescans of one file *)

\* two parseTestFile calls for one file, the second made while the first was
\* still waiting for its read
InFlightTogether ==
  /\ Len(calls) = 2
  /\ calls[1].file = calls[2].file
  /\ Len(log) >= 2
  /\ log[1].kind = "parsing" /\ log[2].kind = "parsing"

-----------------------------------------------------------------------------
(* parseStackTrace: the frames of a failure's stack *)

\* the longest stack, in lines
MaxFrames == 3

Str_at == <<"a", "t">>
Str_fileScheme == <<"f", "i", "l", "e", ":", "/", "/">>

\* . of a regular expression without the s flag
IsDot(c) == c \notin {"\n", "\r"}

IsDigit(c) == c \in Range(DigitSeq)

\* first position >= p holding a character that is not a digit
RECURSIVE SkipDigits(_, _)
SkipDigits(s, p) ==
  IF p <= Len(s) /\ IsDigit(s[p]) THEN SkipDigits(s, p + 1) ELSE p

\* parseInt(s, 10) of a string of digits
RECURSIVE parseInt(_)
parseInt(s) ==
  IF s = <<>> THEN 0
  ELSE 10 * parseInt(SubSeq(s, 1, Len(s) - 1))
       + (CHOOSE d \in 0..9 : DigitSeq[d + 1] = s[Len(s)])

NoMatch == [ok |-> FALSE, label |-> <<>>, file |-> <<>>, lineStr |-> <<>>, columnStr |-> <<>>]

\* (.+?):(\d+):(\d+)\)? with the file starting at s: the lazy file group ends
\* before the first colon at r that two colon-separated numbers follow
RECURSIVE FileTail(_, _, _)
FileTail(line, s, r) ==
  IF r > Len(line) \/ ~IsDot(line[r - 1]) THEN NoMatch
  ELSE LET e1 == SkipDigits(line, r + 1)
           e2 == SkipDigits(line, e1 + 1)
       IN IF /\ line[r] = ":"
             /\ e1 > r + 1
             /\ e1 <= Len(line) /\ line[e1] = ":"
             /\ e2 > e1 + 1
          THEN [ok |-> TRUE, label |-> <<>>, file |-> SubSeq(line, s, r - 1),
                lineStr |-> SubSeq(line, r + 1, e1 - 1),
                columnStr |-> SubSeq(line, e1 + 1, e2 - 1)]
          ELSE FileTail(line, s, r + 1)

\* (?:(.+?)\s+\()? with the label starting at q and ending before a: the lazy
\* label grows until white space and an opening parenthesis follow it and the
\* rest of the pattern matches behind them
RECURSIVE LabelGroup(_, _, _)
LabelGroup(line, q, a) ==
  IF a > Len(line) \/ ~IsDot(line[a - 1]) THEN NoMatch
  ELSE LET b == SkipSpace(line, a)
           t == IF b > a /\ b <= Len(line) /\ line[b] = "("
                THEN FileTail(line, b + 1, b + 2) ELSE NoMatch
       IN IF t.ok THEN [t EXCEPT !.label = SubSeq(line, q, a - 1)]
          ELSE LabelGroup(line, q, a + 1)

\* the pattern behind at\s+, from q: the optional group is tried first
AfterAt(line, q) ==
  LET g == LabelGroup(line, q, q + 1) IN
  IF g.ok THEN g ELSE FileTail(line, q, q + 1)

\* at\s+ at p, the white space ending before q: the greedy \s+ gives
\* characters back while the rest does not match
RECURSIVE AtFrom(_, _, _)
AtFrom(line, p, q) ==
  IF q < p + 3 THEN NoMatch
  ELSE LET r == AfterAt(line, q) IN
       IF r.ok THEN r ELSE AtFrom(line, p, q - 1)

\* line.match(/at\s+(?:(.+?)\s+\()?(.+?):(\d+):(\d+)\)?/): the leftmost match
RECURSIVE MatchFrame(_, _)
MatchFrame(line, p) ==
  IF p + 1 > Len(line) THEN NoMatch
  ELSE LET r == IF StartsWithAt(line, Str_at, p)
                THEN AtFrom(line, p, SkipSpace(line, p + 2)) ELSE NoMatch
       IN IF r.ok THEN r ELSE MatchFrame(line, p + 1)

\* position of the last slash of s (0 if none)
RECURSIVE LastSlash(_, _)
LastSlash(s, p) ==
  IF p = 0 \/ s[p] = "/" THEN p ELSE LastSlash(s, p - 1)

\* path.dirname of an absolute POSIX path of a file
dirname(p) ==
  LET k == LastSlash(p, Len(p)) IN
  IF k <= 1 THEN <<"/">> ELSE SubSeq(p, 1, k - 1)

\* path.basename
basename(p) == SubSeq(p, LastSlash(p, Len(p)) + 1, Len(p))

\* the segments of a path between its slashes
RECURSIVE Segments(_)
Segments(p) ==
  LET e == FindChar(p, "/", 1) IN
  IF e > Len(p) THEN <<p>>
  ELSE <<SubSeq(p, 1, e - 1)>> \o Segments(SubSeq(p, e + 1, Len(p)))

\* path.normalize of the segments of an absolute path: empty and "." segments
\* go, ".." takes the segment before it
RECURSIVE Normalized(_, _)
Normalized(segs, done) ==
  IF segs = <<>> THEN done
  ELSE LET s == Head(segs) IN
       IF s = <<>> \/ s = <<".">> THEN Normalized(Tail(segs), done)
       ELSE IF s = <<".", ".">>
       THEN Normalized(Tail(segs), SubSeq(done, 1, Len(done) - 1))
       ELSE Normalized(Tail(segs), Append(done, s))

\* path.join(dir, file) for an absolute dir
join(dir, file) ==
  <<"/">> \o Join(Normalized(Segments(dir \o <<"/">> \o file), <<>>), <<"/">>)

\* item.uri.fsPath of the failed test's file
TestFileFsPath == <<"/", "w", "t", "/", "a", ".", "t", "e", "s", "t", ".", "j", "s">>

\* vscode.Uri.file
UriFile(p) == [scheme |-> "file", authority |-> <<>>, path |-> p]

\* vscode.Uri.parse of a file:// reference
UriParse(ref) ==
  LET rest == SubSeq(ref, Len(Str_fileScheme) + 1, Len(ref))
      e == FindChar(rest, "/", 1)
  IN [scheme |-> "file", authority |-> SubSeq(rest, 1, e - 1),
      path |-> SubSeq(rest, e, Len(rest))]

NoUri == [scheme |-> "none", authority |-> <<>>, path |-> <<>>]

\* the uri of a frame's file reference; NoUri when it cannot be resolved
FrameUri(file, hasUri) ==
  IF StartsWithAt(file, Str_fileScheme, 1) THEN UriParse(file)
  ELSE IF file # <<>> /\ file[1] = "/" THEN UriFile(file)
  ELSE IF hasUri THEN UriFile(join(dirname(TestFileFsPath), file))
  ELSE NoUri

FramePosition_OneBased(m) ==
  [line |-> parseInt(m.lineStr), character |-> parseInt(m.columnStr)]

\* new vscode.Position(lineNum, column)
FramePosition(m) ==
  [line |-> parseInt(m.lineStr) - 1, character |-> parseInt(m.columnStr) - 1]

\* the frame pushed for a match
Frame(m, hasUri) ==
  [uri |-> FrameUri(m.file, hasUri),
   position |-> FramePosition(m),
   label |-> IF m.label # <<>> THEN m.label ELSE basename(m.file)]

Stack_Named == <<" ", " ", " ", " ", "a", "t", " ", "f", "n", " ", "(", "/", "a", ".", "j", "s", ":", "3", ":", "7", ")">>
Stack_Bare == <<" ", " ", " ", " ", "a", "t", " ", "/", "a", ".", "j", "s", ":", "1", "2", ":", "1">>
Stack_Relative == <<" ", " ", " ", " ", "a", "t", " ", "g", " ", "(", "t", ".", "j", "s", ":", "5", ":", "1", "0", ")">>
Stack_Message == <<"E", "r", "r", "o", "r", ":", " ", "b", "o", "o", "m">>
Stack_FileUrl == <<" ", " ", " ", " ", "a", "t", " ", "f", "i", "l", "e", ":", "/", "/", "/", "b", ".", "j", "s", ":", "1", ":", "1">>
Stack_NewX == <<" ", " ", " ", " ", "a", "t", " ", "n", "e", "w", " ", "X", " ", "(", ".", ".", "/", "a", ".", "j", "s", ":", "1", "0", ":", "2", ")", "\r">>

StackLines == {Stack_Named, Stack_Bare, Stack_Relative, Stack_Message, Stack_FileUrl, Stack_NewX}

\* err.stack of a failed test: up to MaxFrames lines
StackTexts ==
  {Join(ls, <<"\n">>) : ls \in UNION {[1..n -> StackLines] : n \in 1..MaxFrames}}

\* createTestMessage has a stack and calls parseStackTrace with it and item.uri
StackInit ==
  /\ \E text \in StackTexts, u \in BOOLEAN :
       stk = [StackNone EXCEPT !.stack = text, !.hasUri = u, !.pc = "called"]
  /\ items = <<>>
  /\ tagMap = CommonTags
  /\ ScanIdle
  /\ StoreIdle
  /\ ReconIdle
  /\ ContIdle
  /\ SingleIdle
  /\ LifeIdle
  /\ HeldIdle

\* const lines = stack.split('\n')
SplitStack ==
  /\ stk.pc = "called"
  /\ stk' = [stk EXCEPT !.lines = SplitLines(stk.stack), !.pc = "loop"]
  /\ UNCHANGED <<items, tagMap, scanVars, storeVars, reconVars, contVars, singleVars, lifeVars, heldVars>>

StackLine == stk.lines[stk.i + 1]

\* a line that matches and whose file resolves: its frame is pushed
PushFrame ==
  /\ stk.pc = "loop" /\ stk.i < Len(stk.lines)
  /\ LET m == MatchFrame(StackLine, 1) IN
       /\ m.ok
       /\ FrameUri(m.file, stk.hasUri) # NoUri
       /\ stk' = [stk EXCEPT !.i = @ + 1, !.frames = Append(@, Frame(m, stk.hasUri))]
  /\ UNCHANGED <<items, tagMap, scanVars, storeVars, reconVars, contVars, singleVars, lifeVars, heldVars>>

\* a line that matches and whose file does not resolve: continue
SkipFrame ==
  /\ stk.pc = "loop" /\ stk.i < Len(stk.lines)
  /\ LET m == MatchFrame(StackLine, 1) IN
       /\ m.ok
       /\ FrameUri(m.file, stk.hasUri) = NoUri
       /\ stk' = [stk EXCEPT !.i = @ + 1]
  /\ UNCHANGED <<items, tagMap, scanVars, storeVars, reconVars, contVars, singleVars, lifeVars, heldVars>>

\* a line that does not match
PassLine ==
  /\ stk.pc = "loop" /\ stk.i < Len(stk.lines)
  /\ ~MatchFrame(StackLine, 1).ok
  /\ stk' = [stk EXCEPT !.i = @ + 1]
  /\ UNCHANGED <<items, tagMap, scanVars, storeVars, reconVars, contVars, singleVars, lifeVars, heldVars>>

\* return frames
ReturnFrames ==
  /\ stk.pc = "loop" /\ stk.i = Len(stk.lines)
  /\ stk' = [stk EXCEPT !.pc = "returned"]
  /\ UNCHANGED <<items, tagMap, scanVars, storeVars, reconVars, contVars, singleVars, lifeVars, heldVars>>

StackNext ==
  \/ SplitStack
  \/ PushFrame
  \/ SkipFrame
  \/ PassLine
  \/ ReturnFrames

SpecStack == StackInit /\ [][StackNext]_vars

\* what each line of the stacks says, read off its text: whether it is a
\* frame line, its 1-based line and column, whether its file is relative
StackLineFacts ==
  (Stack_Named    :> [frame |-> TRUE,  line |-> 3,  column |-> 7,  relative |-> FALSE]) @@
  (Stack_Bare     :> [frame |-> TRUE,  line |-> 12, column |-> 1,  relative |-> FALSE]) @@
  (Stack_Relative :> [frame |-> TRUE,  line |-> 5,  column |-> 10, relative |-> TRUE]) @@
  (Stack_Message  :> [frame |-> FALSE, line |-> 0,  column |-> 0,  relative |-> FALSE]) @@
  (Stack_FileUrl  :> [frame |-> TRUE,  line |-> 1,  column |-> 1,  relative |-> FALSE]) @@
  (Stack_NewX     :> [frame |-> TRUE,  line |-> 10, column |-> 2,  relative |-> TRUE])

\* the lines of the stack that are frame lines with a resolvable file, in order
ResolvableLines(ls, hasUri) ==
  SelectSeq(ls, LAMBDA l : StackLineFacts[l].frame /\ (hasUri \/ ~StackLineFacts[l].relative))

\* the stack as the lines it was joined from
GivenLines ==
  CHOOSE ls \in UNION {[1..n -> StackLines] : n \in 1..MaxFrames} :
    Join(ls, <<"\n">>) = stk.stack

\* C24: the frames built from the lines read so far are, in the order of the
\* lines, one frame per frame line whose file reference resolves, at position
\* (line - 1, column - 1); a frame line whose file does not resolve and a line
\* that is no frame line add nothing and take nothing away
C24_FramesLineByLine ==
  stk.pc \in {"loop", "returned"} =>
    LET want == ResolvableLines(SubSeq(GivenLines, 1, stk.i), stk.hasUri) IN
    /\ Len(stk.frames) = Len(want)
    /\ \A k \in 1..Len(want) :
         /\ stk.frames[k].position.line = StackLineFacts[want[k]].line - 1
         /\ stk.frames[k].position.character = StackLineFacts[want[k]].column - 1

\* a stack without a test file uri whose middle frame is relative: the frames
\* before and after it were attached
C24_Witness ==
  /\ stk.pc = "returned"
  /\ ~stk.hasUri
  /\ GivenLines = <<Stack_Named, Stack_Relative, Stack_Bare>>
  /\ Len(stk.frames) = 2
  /\ stk.frames[1].position = [line |-> 2, character |-> 6]
  /\ stk.frames[2].position = [line |-> 11, character |-> 0]
  /\ stk.frames[2].label = basename(stk.frames[2].uri.path)

-----------------------------------------------------------------------------
(* The open-node stack *)

\* C31: while a scan runs and after it, the open-node stack is not empty, its
\* bottom element is the File node, every node on it is in the tree, and every
\* node below the File has its parent in the tree, inside the File's subtree
C31_FileStaysAtStackBottom ==
  pc \in {"scan", "done"} =>
    /\ Len(sc.suiteStack) >= 1
    /\ sc.suiteStack[1] = <<sc.file>>
    /\ \A k \in 1..Len(sc.suiteStack) : HasItem(items, sc.suiteStack[k])
    /\ \A k \in 1..Len(items) :
         Len(items[k].id) > 1 =>
           /\ HasItem(items, ParentId(items[k].id))
           /\ IsBelow(items[k].id, <<sc.file>>)

\* a closing line met the stack holding the File alone, and the line after it
\* created a node under the File
C31_Witness ==
  /\ pc = "scan"
  /\ sc.i >= 2
  /\ suiteEndRegex(sc.lines[1])
  /\ sc.suiteStack = <<<<sc.file>>>>
  /\ \E k \in 1..Len(items) : items[k].line = 1 /\ ParentId(items[k].id) = <<sc.file>>

-----------------------------------------------------------------------------
(* Passes of the continuous run that execute at once *)

\* the passes (the initial run included) whose run was created and not ended
RunningPasses == {p \in 1..Len(cont.passes) : ~cont.passes[p].ended}

\* C32: at most one pass of the continuous run is executing at any time
C32_AtMostOnePassRunning ==
  Cardinality(RunningPasses) <= 1

-----------------------------------------------------------------------------
(* runSingleTest: Test items executed on their own within one run *)

\* the most Test items of the Suite the run executes
MaxSingles == 2

\* what the close handler reports for the process
CloseOutcomes == {"passed", "failed"}

\* a Test item before runSingleTest is called for it
QueuedTest == [child |-> "none", listener |-> FALSE, shortcut |-> FALSE, returned |-> FALSE]

\* run.passed / run.failed / run.skipped for test k; late: after run.end()
Outcome(s, k, kind) ==
  [s EXCEPT !.outcomes = Append(@, [test |-> k, kind |-> kind, late |-> s.ended])]

\* child.kill(); run.skipped(testItem); reject(new Error('Test cancelled')),
\* and, when the promise is still pending, the catch block behind the await:
\* run.failed(testItem, ...) and the return of runSingleTest
KillSkipReject(s, k) ==
  LET killed == [s EXCEPT !.tests[k].child = IF @ = "running" THEN "killed" ELSE @]
      skipped == Outcome(killed, k, "skipped")
  IN IF s.tests[k].returned THEN skipped
     ELSE [Outcome(skipped, k, "failed") EXCEPT !.tests[k].returned = TRUE]

\* the executor of the promise: spawn, the handlers, the check of the token and
\* the registration of the cancellation listener; on a token that is cancelled
\* already the listener is called once more, by a timer of its own
Executor(s, k) ==
  LET spawned == [s EXCEPT !.tests[k].child = "running", !.tests[k].listener = TRUE] IN
  IF s.cancelled
  THEN [KillSkipReject(spawned, k) EXCEPT !.tests[k].shortcut = TRUE]
  ELSE spawned

\* the listeners of the token, called in the order of their registration
RECURSIVE FireListeners(_, _)
FireListeners(s, k) ==
  IF k > Len(s.tests) THEN s
  ELSE FireListeners(IF s.tests[k].listener THEN KillSkipReject(s, k) ELSE s, k + 1)

\* child.on('close'): the outcome read from stdout or from the exit code, then
\* resolve(), after which runSingleTest returns unless it has already
CloseHandler(s, k, kind) ==
  [Outcome(s, k, kind) EXCEPT !.tests[k].child = "closed", !.tests[k].returned = TRUE]

\* runTest of a Suite with n Test children was called in a run
SingleInit ==
  /\ \E n \in 1..MaxSingles, c \in BOOLEAN :
       single = [SingleNone EXCEPT !.tests = [k \in 1..n |-> QueuedTest], !.cancelled = c]
  /\ items = <<>>
  /\ tagMap = CommonTags
  /\ ScanIdle
  /\ StoreIdle
  /\ ReconIdle
  /\ ContIdle
  /\ StackIdle
  /\ LifeIdle
  /\ HeldIdle

\* runSingleTest reaches its promise for the next child of the Suite
StartSingleTest(k) ==
  /\ ~single.ended
  /\ single.tests[k].child = "none"
  /\ \A j \in 1..(k - 1) : single.tests[j].returned
  /\ single' = Executor(single, k)
  /\ UNCHANGED <<items, tagMap, scanVars, storeVars, reconVars, contVars, stackVars, lifeVars, heldVars>>

\* the process of test k closes
ChildCloses(k, kind) ==
  /\ single.tests[k].child \in {"running", "killed"}
  /\ single' = CloseHandler(single, k, kind)
  /\ UNCHANGED <<items, tagMap, scanVars, storeVars, reconVars, contVars, stackVars, lifeVars, heldVars>>

\* the token is cancelled
CancelToken ==
  /\ ~single.cancelled
  /\ single' = FireListeners([single EXCEPT !.cancelled = TRUE], 1)
  /\ UNCHANGED <<items, tagMap, scanVars, storeVars, reconVars, contVars, stackVars, lifeVars, heldVars>>

\* the listener registered on a cancelled token is called
ShortcutListener(k) ==
  /\ single.tests[k].shortcut
  /\ single' = [KillSkipReject(single, k) EXCEPT !.tests[k].shortcut = FALSE]
  /\ UNCHANGED <<items, tagMap, scanVars, storeVars, reconVars, contVars, stackVars, lifeVars, heldVars>>

\* the loops are over: run.end() in the finally block
RunEnd ==
  /\ ~single.ended
  /\ \A k \in 1..Len(single.tests) : single.tests[k].returned
  /\ single' = [single EXCEPT !.ended = TRUE]
  /\ UNCHANGED <<items, tagMap, scanVars, storeVars, reconVars, contVars, stackVars, lifeVars, heldVars>>

SingleNext ==
  \/ \E k \in 1..Len(single.tests) : StartSingleTest(k)
  \/ \E k \in 1..Len(single.tests), kind \in CloseOutcomes : ChildCloses(k, kind)
  \/ CancelToken
  \/ \E k \in 1..Len(single.tests) : ShortcutListener(k)
  \/ RunEnd

SpecSingle == SingleInit /\ [][SingleNext]_vars

\* the outcome calls for test k made before the run was ended
OutcomesInRun(k) ==
  SelectSeq(single.outcomes, LAMBDA o : o.test = k /\ ~o.late)

\* C33: a Test item executed on its own never has more than one outcome within
\* the run, and has exactly one once runSingleTest has returned for it
C33_OneTerminalOutcome ==
  \A k \in 1..Len(single.tests) :
    /\ Len(OutcomesInRun(k)) <= 1
    /\ single.tests[k].returned => Len(OutcomesInRun(k)) = 1

-----------------------------------------------------------------------------
(* The TestRun of each entry point, from createTestRun to run.end() *)

\* the longest queue of a run
MaxQueue == 3

\* runTests, runTestsWithCoverage, runSingleTestExecution, debugTests
RunKinds == {"plain", "coverage", "pass", "debug"}

\* a queued item is in request.exclude or not
QueueItems == {"queued", "excluded"}

Queues == UNION {[1..n -> QueueItems] : n \in 1..MaxQueue}

\* for (const test of queue) from its next item to its next await: an item met
\* with the token cancelled is skipped, an excluded item is passed over, the
\* first other item is started; past the last item the finally block ends the run
RECURSIVE RunQueue(_)
RunQueue(l) ==
  LET q == {k \in 1..Len(l.queue) : l.queue[k] \in QueueItems} IN
  IF q = {} THEN [l EXCEPT !.ends = @ + 1, !.pc = "returned"]
  ELSE LET k == CHOOSE j \in q : \A i \in q : j <= i IN
       IF l.cancelled THEN RunQueue([l EXCEPT !.queue[k] = "skipped"])
       ELSE IF l.queue[k] = "excluded" THEN RunQueue([l EXCEPT !.queue[k] = "passed over"])
       ELSE [l EXCEPT !.queue[k] = "running", !.pc = "item"]

\* an entry point was called with a request and a token
LifeInit ==
  /\ \E kind \in RunKinds, q \in Queues, c \in BOOLEAN :
       life = [LifeNone EXCEPT !.kind = kind, !.pc = "called", !.queue = q, !.cancelled = c]
  /\ items = <<>>
  /\ tagMap = CommonTags
  /\ ScanIdle
  /\ StoreIdle
  /\ ReconIdle
  /\ ContIdle
  /\ StackIdle
  /\ SingleIdle
  /\ HeldIdle

\* runTests, runSingleTestExecution: createTestRun, the queue, the loop up to
\* its first await
StartRun ==
  /\ life.pc = "called" /\ life.kind \in {"plain", "pass"}
  /\ life' = RunQueue([life EXCEPT !.created = TRUE])
  /\ UNCHANGED <<items, tagMap, scanVars, storeVars, reconVars, contVars, stackVars, singleVars, heldVars>>

\* runTestsWithCoverage: without a coverage provider it returns before a run
\* is created
StartCoverageRun(hasProvider) ==
  /\ life.pc = "called" /\ life.kind = "coverage"
  /\ life' = IF hasProvider THEN RunQueue([life EXCEPT !.created = TRUE])
             ELSE [life EXCEPT !.pc = "returned"]
  /\ UNCHANGED <<items, tagMap, scanVars, storeVars, reconVars, contVars, stackVars, singleVars, heldVars>>

\* await this.runTest(test, run, token) returns and the loop goes on
ItemReturns ==
  /\ life.pc = "item"
  /\ \E k \in 1..Len(life.queue) :
       /\ life.queue[k] = "running"
       /\ life' = RunQueue([life EXCEPT !.queue[k] = "done"])
  /\ UNCHANGED <<items, tagMap, scanVars, storeVars, reconVars, contVars, stackVars, singleVars, heldVars>>

\* await this.runTest(test, run, token) throws (getMochaPath rejected): the
\* catch block logs and the finally block ends the run
ItemThrows ==
  /\ life.pc = "item"
  /\ \E k \in 1..Len(life.queue) :
       /\ life.queue[k] = "running"
       /\ life' = [life EXCEPT !.queue[k] = "threw", !.ends = @ + 1, !.pc = "returned"]
  /\ UNCHANGED <<items, tagMap, scanVars, storeVars, reconVars, contVars, stackVars, singleVars, heldVars>>

\* debugTests: createTestRun; without a workspace folder the run is ended and
\* the call returns, else the stat of .pnp.cjs and getMochaPath are awaited
StartDebugRun(hasFolder) ==
  /\ life.pc = "called" /\ life.kind = "debug"
  /\ life' = IF hasFolder THEN [life EXCEPT !.created = TRUE, !.pc = "locating"]
             ELSE [life EXCEPT !.created = TRUE, !.ends = @ + 1, !.pc = "returned"]
  /\ UNCHANGED <<items, tagMap, scanVars, storeVars, reconVars, contVars, stackVars, singleVars, heldVars>>

\* getMochaPath resolves: the configuration is built, startDebugging is awaited
MochaFound ==
  /\ life.pc = "locating"
  /\ life' = [life EXCEPT !.pc = "starting"]
  /\ UNCHANGED <<items, tagMap, scanVars, storeVars, reconVars, contVars, stackVars, singleVars, heldVars>>

\* getMochaPath rejects: the rejection leaves debugTests
MochaNotFound ==
  /\ life.pc = "locating"
  /\ life' = [life EXCEPT !.pc = "thrown"]
  /\ UNCHANGED <<items, tagMap, scanVars, storeVars, reconVars, contVars, stackVars, singleVars, heldVars>>

\* startDebugging resolves: a started session is waited for, else the run is ended
DebuggingStarted(started) ==
  /\ life.pc = "starting"
  /\ life' = IF started THEN [life EXCEPT !.session = TRUE, !.pc = "session"]
             ELSE [life EXCEPT !.ends = @ + 1, !.pc = "returned"]
  /\ UNCHANGED <<items, tagMap, scanVars, storeVars, reconVars, contVars, stackVars, singleVars, heldVars>>

\* onDidTerminateDebugSession: the run is ended
SessionTerminates ==
  /\ life.pc = "session"
  /\ life' = [life EXCEPT !.ends = @ + 1, !.pc = "returned"]
  /\ UNCHANGED <<items, tagMap, scanVars, storeVars, reconVars, contVars, stackVars, singleVars, heldVars>>

\* the token of the request is cancelled
CancelRun ==
  /\ ~life.cancelled
  /\ life.pc \notin {"returned", "thrown"}
  /\ life' = [life EXCEPT !.cancelled = TRUE]
  /\ UNCHANGED <<items, tagMap, scanVars, storeVars, reconVars, contVars, stackVars, singleVars, heldVars>>

\* the steps the runner, its processes and the debug session take by themselves
LifeProgress ==
  \/ StartRun
  \/ \E p \in BOOLEAN : StartCoverageRun(p)
  \/ ItemReturns
  \/ ItemThrows
  \/ \E f \in BOOLEAN : StartDebugRun(f)
  \/ MochaFound
  \/ MochaNotFound
  \/ \E s \in BOOLEAN : DebuggingStarted(s)
  \/ SessionTerminates

LifeNext == LifeProgress \/ CancelRun

SpecLife == LifeInit /\ [][LifeNext]_vars

\* every file run, lookup and debug session comes to an end
SpecLifeFair == SpecLife /\ WF_vars(LifeProgress)

\* C34: every test run that is created is ended at some time, and never more
\* than once
C34_EveryRunEndedOnce ==
  /\ [](life.ends <= 1)
  /\ (life.created ~> life.ends = 1)

-----------------------------------------------------------------------------
(* Items a run holds while their file is rescanned *)

\* File f1 with Suite A and Test b under it.  The File item is one object for
\* good (getOrCreateFile returns the existing one); every rescan creates the
\* Suite and the Test anew, so an object is known by its type and by the
\* number of the scan that created it
MaxRescans == 2
MaxHeld == 2
MaxPasses == 2

HeldTypes == {"File", "Suite", "Test"}

HeldQueues == UNION {[1..n -> HeldTypes] : n \in 1..MaxHeld}

\* run.passed / run.failed / run.skipped on the Test object of scan obj, while
\* the tree holds the objects of scan h.gen
Report(h, obj) ==
  [h EXCEPT !.reports = Append(@, [type |-> "Test", obj |-> obj, tree |-> h.gen])]

\* the object the outcome of queue item k is attached to: updateTestResults
\* walks fileItem.children as they are when the process closes; runTest of a
\* Suite walks the children of the Suite it was given, runSingleTest reports
\* on the Test it was given
ReportedObject(h, k) ==
  IF h.queue[k].type = "File" THEN h.gen ELSE h.queue[k].obj

\* a request whose include holds items of the tree as it is now
HeldInit ==
  /\ \E q \in HeldQueues :
       held = [HeldNone EXCEPT !.queue = [k \in 1..Len(q) |-> [type |-> q[k], obj |-> 0, st |-> "queued"]]]
  /\ items = <<>>
  /\ tagMap = CommonTags
  /\ ScanIdle
  /\ StoreIdle
  /\ ReconIdle
  /\ ContIdle
  /\ StackIdle
  /\ SingleIdle
  /\ LifeIdle

\* parseTestFile of f1 runs to its end: the children are replaced
RescanFile ==
  /\ held.gen < MaxRescans
  /\ held' = [held EXCEPT !.gen = @ + 1]
  /\ UNCHANGED <<items, tagMap, scanVars, storeVars, reconVars, contVars, stackVars, singleVars, lifeVars>>

\* runTest is called for the next item of the queue and reaches its process
StartHeldItem(k) ==
  /\ held.queue[k].st = "queued"
  /\ \A j \in 1..(k - 1) : held.queue[j].st = "done"
  /\ held' = [held EXCEPT !.queue[k].st = "running"]
  /\ UNCHANGED <<items, tagMap, scanVars, storeVars, reconVars, contVars, stackVars, singleVars, lifeVars>>

\* the process of item k closes and the outcome of Test b is reported
HeldItemCloses(k) ==
  /\ held.queue[k].st = "running"
  /\ held' = [Report(held, ReportedObject(held, k)) EXCEPT !.queue[k].st = "done"]
  /\ UNCHANGED <<items, tagMap, scanVars, storeVars, reconVars, contVars, stackVars, singleVars, lifeVars>>

\* continuous mode: the debounce timer expires after the pass before has ended
\* and the items of request.include are run again
NextHeldPass ==
  /\ held.passes < MaxPasses
  /\ \A k \in 1..Len(held.queue) : held.queue[k].st = "done"
  /\ held' = [held EXCEPT !.passes = @ + 1,
                          !.queue = [k \in 1..Len(held.queue) |-> [@[k] EXCEPT !.st = "queued"]]]
  /\ UNCHANGED <<items, tagMap, scanVars, storeVars, reconVars, contVars, stackVars, singleVars, lifeVars>>

HeldNext ==
  \/ RescanFile
  \/ \E k \in 1..Len(held.queue) : StartHeldItem(k)
  \/ \E k \in 1..Len(held.queue) : HeldItemCloses(k)
  \/ NextHeldPass

SpecHeld == HeldInit /\ [][HeldNext]_vars

\* C35: every outcome is attached to an object that is in the tree at the
\* moment of reporting
C35_OutcomeOnCurrentNode ==
  \A k \in 1..Len(held.reports) : held.reports[k].obj = held.reports[k].tree

-----------------------------------------------------------------------------
(* Records that decide more than one node *)

\* the position of the record that decides Test node k: the first one whose
\* fullTitle is the node's path or ends with it (0 when there is none)
DecidingRecord(k) ==
  LET s == SuffixRecords(PathOf(k)) IN
  IF s = {} THEN 0 ELSE CHOOSE j \in s : \A i \in s : j <= i

\* the pairs of distinct Test nodes decided by one record
SharingPairs ==
  {p \in TestNodes \X TestNodes :
     p[1] # p[2] /\ DecidingRecord(p[1]) # 0 /\ DecidingRecord(p[1]) = DecidingRecord(p[2])}

\* C36 as stated: after a reconciliation no two distinct Test nodes have their
\* outcome from the same record
C36_NoRecordDecidesTwoNodes ==
  Reconciled => SharingPairs = {}

\* C36 amended: two distinct Test nodes have their outcome from the same record
\* only when the path of one is a trailing substring of the path of the other;
\* both then carry the outcome of that record, whatever a later record of equal
\* fullTitle says
C36_SharedRecordOnlyBySuffix ==
  Reconciled =>
    \A p \in SharingPairs :
      /\ EndsWith(PathOf(p[1]), PathOf(p[2])) \/ EndsWith(PathOf(p[2]), PathOf(p[1]))
      /\ OutcomesOf(p[1]) = {RecordOutcome(results[DecidingRecord(p[1])].val)}
      /\ OutcomesOf(p[2]) = OutcomesOf(p[1])

\* the failed record "A b" comes before the passed record "b": the nodes of
\* paths "A b" and "b" are both failed by the first record
C36_Witness ==
  /\ Reconciled
  /\ content = Text_Recon1
  /\ Len(results) = 2
  /\ results[1].key = Title_Ab /\ ~results[1].val.passed /\ ~results[1].val.pending
  /\ results[2].key = Title_b /\ results[2].val.passed
  /\ SharingPairs # {}
  /\ \A k \in TestNodes : OutcomesOf(k) = {"failed"}

-----------------------------------------------------------------------------
(* Failures of a pass and the retraction of the same pass *)

\* the annotations the file has beyond those it had when the pass began
AddedAnnotations ==
  LET d == FileDiagnostics(diag, F1) IN
  IF Len(d) < Len(run.before) THEN <<>> ELSE SubSeq(d, Len(run.before) + 1, Len(d))

\* C37: when a pass has marked a Test node of the File failed, the File's
\* annotations are not cleared at the end of the pass: those it had before are
\* still there and each failed Test has its annotation behind them
C37_FailureSurvivesRetraction ==
  (Reconciled /\ FailedReports # <<>>) =>
    /\ SubSeq(FileDiagnostics(diag, F1), 1, Len(run.before)) = run.before
    /\ Len(AddedAnnotations) = Len(FailedReports)
    /\ \A j \in 1..Len(FailedReports) :
         /\ AddedAnnotations[j].test = Label(GetItem(items, FailedReports[j].item))
         /\ AddedAnnotations[j].line = GetItem(items, FailedReports[j].item).line

\* a pass that began with an annotation on the file, passed one test and
\* failed the other: the old annotation and the new one are both there
C37_Witness ==
  /\ Reconciled
  /\ run.before # <<>>
  /\ Len(FailedReports) = 1
  /\ \E j \in 1..Len(reported) : reported[j].state = "passed"
  /\ Len(FileDiagnostics(diag, F1)) = Len(run.before) + 1

-----------------------------------------------------------------------------
(* A file deleted while a scan of it is in flight *)

\* watcher.onDidDelete: controller.items.delete(uri.toString()); the calls that
\* wait for their read keep the item they got from getOrCreateFile
DeleteFile(f) ==
  /\ HasItem(items, <<f>>)
  /\ items' = SelectSeq(items, LAMBDA n : n.id[1] # f)
  /\ calls' = [k \in 1..Len(calls) |->
                 IF calls[k].file = f /\ calls[k].state = "awaiting"
                 THEN [calls[k] EXCEPT !.detached = TRUE] ELSE calls[k]]
  /\ UNCHANGED <<tagMap, log, scanVars, reconVars, contVars, stackVars, singleVars, lifeVars, heldVars>>

StoreDelNext ==
  \/ StoreNext
  \/ \E f \in Files : DeleteFile(f)

SpecStoreDel == StoreInit /\ [][StoreDelNext]_vars

\* call k comes to its end in this step
Completes(k) == calls[k].state = "awaiting" /\ calls'[k].state # "awaiting"

\* C38: when a call whose file was deleted while it waited for its read comes
\* to its end, the tree is left as it is: the File is not inserted again and
\* no node of the scan enters the tree
C38_ScanOfDeletedFileAddsNothing ==
  [][\A k \in 1..Len(calls) :
       (calls[k].detached /\ Completes(k)) =>
         /\ items' = items
         /\ ~HasItem(items, <<calls[k].file>>) => ~HasItem(items', <<calls[k].file>>)]_vars

\* a call read a text with declarations after its file had been deleted, and
\* has logged its scan: the tree has no entry for the file and no node of it
C38_Witness ==
  \E k \in 1..Len(calls) :
    /\ calls[k].detached
    /\ calls[k].state = "resolved"
    /\ calls[k].read \in ReadResults \ {ReadRejected}
    /\ Len(FreshScan(calls[k].file, calls[k].read.text)) > 1
    /\ \E j \in 1..Len(log) : log[j].call = k /\ log[j].kind = "parsed"
    /\ \A j \in 1..Len(items) : items[j].id[1] # calls[k].file

====
